---- MODULE Spec2Model ----
(***************************************************************************)
(* Model of the scpsl-api crate: the `serverinfo` wire <-> domain          *)
(* conversions (src/server_info/mod.rs, src/server_info/raw.rs) and the    *)
(* `get` call that drives them; the request parameters, their builder and  *)
(* the query the call appends; the earlier revision of the same module     *)
(* (src/server_info.rs); and the `ip` call (src/ip.rs).                    *)
(*                                                                         *)
(* Representation                                                          *)
(*   Option<T>   None is <<>>, Some(x) is <<x>>                            *)
(*   String      a sequence of one-character strings                       *)
(*   bytes       a sequence of numbers 0..255 (domain text is UTF-8 bytes) *)
(*   u32         two 16-bit limbs <<hi, lo>>, so that the overflow of      *)
(*               str::parse::<u32> happens where the program's does        *)
(*   Result      [tag |-> "Ok" | "Err" | "Panic", val |-> ...]             *)
(***************************************************************************)
EXTENDS Integers, Sequences, FiniteSets, TLC

VARIABLES op, arg, ret, prev, pc, body, outcome, requests, padOptional,
          call, url, builder, wire

vars ==
    <<op, arg, ret, prev, pc, body, outcome, requests, padOptional, call, url, builder,
      wire>>

\* wire: the wire players of a chain of conversions that began with a wire
\* player, the first one and each RawPlayer::from result after it
convVars == <<op, arg, ret, prev, wire>>

callVars == <<pc, body, outcome, requests>>

reqVars == <<call, url, builder>>

----------------------------------------------------------------------------
(* Option, Result *)

None == <<>>

Some(x) == <<x>>

IsSome(o) == Len(o) = 1

IsNone(o) == Len(o) = 0

Unwrapped(o) == o[1]

Ok(v) == [tag |-> "Ok", val |-> v]

Err(e) == [tag |-> "Err", val |-> e]

Panic(m) == [tag |-> "Panic", val |-> m]

IsOk(r) == r.tag = "Ok"

\* the result of Option::map on Some(x), from the result of the closure on x:
\* Some of its value unless the closure panics
SomeOf(r) == IF IsOk(r) THEN Ok(Some(r.val)) ELSE r

----------------------------------------------------------------------------
(* Characters and decimal numbers *)

DigitChars == <<"0", "1", "2", "3", "4", "5", "6", "7", "8", "9">>

IsDigit(c) == \E i \in 1..10 : DigitChars[i] = c

DigitVal(c) == (CHOOSE i \in 1..10 : DigitChars[i] = c) - 1

RECURSIVE NatToString(_)
NatToString(n) ==
    IF n < 10 THEN <<DigitChars[n + 1]>>
    ELSE NatToString(n \div 10) \o <<DigitChars[(n % 10) + 1]>>

\* {:0w} of a non-negative number
PadZero(n, w) ==
    LET s == NatToString(n)
    IN  IF Len(s) >= w THEN s ELSE [i \in 1..(w - Len(s)) |-> "0"] \o s

LimbBase == 65536

U32(n) == <<n \div LimbBase, n % LimbBase>>

\* u32::checked_mul(10) followed by u32::checked_add(d), on limbs
U32MulAdd(x, d) ==
    LET lo == x[2] * 10 + d
        hi == x[1] * 10 + (lo \div LimbBase)
    IN  IF hi >= LimbBase THEN Err("PosOverflow") ELSE Ok(<<hi, lo % LimbBase>>)

\* Display for u32: decimal, no padding
RECURSIVE U32ToString(_)
U32ToString(x) ==
    LET qhi == x[1] \div 10
        mid == (x[1] % 10) * LimbBase + x[2]
        q   == <<qhi, mid \div 10>>
        r   == mid % 10
    IN  IF x[1] = 0 /\ x[2] < 10 THEN <<DigitChars[x[2] + 1]>>
        ELSE U32ToString(q) \o <<DigitChars[r + 1]>>

RECURSIVE U32Digits(_, _)
U32Digits(s, acc) ==
    IF s = <<>> THEN Ok(acc)
    ELSE IF ~IsDigit(Head(s)) THEN Err("InvalidDigit")
    ELSE LET r == U32MulAdd(acc, DigitVal(Head(s)))
         IN  IF IsOk(r) THEN U32Digits(Tail(s), r.val) ELSE r

\* <u32 as FromStr>::from_str: an optional leading '+', then decimal digits
U32FromStr(s) ==
    IF s = <<>> THEN Err("Empty")
    ELSE IF Len(s) = 1 /\ Head(s) \in {"+", "-"} THEN Err("InvalidDigit")
    ELSE IF Head(s) = "+" THEN U32Digits(Tail(s), U32(0))
    ELSE U32Digits(s, U32(0))

\* str::split(sep) collected: the segments between separators
RECURSIVE Split(_, _)
Split(s, sep) ==
    IF \A i \in 1..Len(s) : s[i] # sep THEN <<s>>
    ELSE LET k == CHOOSE i \in 1..Len(s) :
                     s[i] = sep /\ \A j \in 1..(i - 1) : s[j] # sep
         IN  <<SubSeq(s, 1, k - 1)>> \o Split(SubSeq(s, k + 1, Len(s)), sep)

----------------------------------------------------------------------------
(* Players *)

Player(id, nickname) == [id |-> id, nickname |-> nickname]

UserId(id) == [variant |-> "UserId", id |-> id]

UserIdWithNickname(id, nickname) ==
    [variant |-> "UserIdWithNickname", id |-> id, nickname |-> nickname]

\* a faulty From<RawPlayer>: an absent nickname becomes an empty one
PlayerFromRawPlayerEmptyNickname(raw) ==
    IF raw.variant = "UserId" THEN Player(raw.id, None)
    ELSE Player(raw.id,
                IF IsSome(raw.nickname) THEN raw.nickname ELSE Some(<<>>))

PlayerFromRawPlayer(raw) ==
    IF raw.variant = "UserId" THEN Player(raw.id, None)
    ELSE Player(raw.id, raw.nickname)

\* a faulty From<Player>: the object variant whatever the nickname
RawPlayerFromPlayerAlwaysObject(player) ==
    UserIdWithNickname(player.id, player.nickname)

RawPlayerFromPlayer(player) ==
    IF IsSome(player.nickname)
    THEN UserIdWithNickname(player.id, Some(Unwrapped(player.nickname)))
    ELSE UserId(player.id)

----------------------------------------------------------------------------
(* Dates: chrono's NaiveDate, format("%Y-%m-%d") and parse_from_str *)

NaiveDate(y, m, d) == [y |-> y, m |-> m, d |-> d]

IsLeapYear(y) == y % 4 = 0 /\ (y % 100 # 0 \/ y % 400 = 0)

DaysInMonth(y, m) ==
    IF m = 2 THEN (IF IsLeapYear(y) THEN 29 ELSE 28)
    ELSE IF m \in {4, 6, 9, 11} THEN 30 ELSE 31

MinYear == -262144

MaxYear == 262143

\* NaiveDate::from_ymd_opt(y, m, d).is_some()
IsValidDate(y, m, d) ==
    /\ MinYear <= y /\ y <= MaxYear
    /\ 1 <= m /\ m <= 12
    /\ 1 <= d /\ d <= DaysInMonth(y, m)

\* %Y: four digits, zero padded; a year outside 0..9999 carries its sign
FormatYear(y) ==
    IF 0 <= y /\ y < 10000 THEN PadZero(y, 4)
    ELSE IF y < 0 THEN <<"-">> \o PadZero(0 - y, 4)
    ELSE <<"+">> \o PadZero(y, 4)

\* Date<Utc>::format("%Y-%m-%d").to_string()
FormatDate(date) ==
    FormatYear(date.y) \o <<"-">> \o PadZero(date.m, 2) \o <<"-">> \o PadZero(date.d, 2)

RECURSIVE DigitsValue(_, _)
DigitsValue(s, acc) ==
    IF s = <<>> THEN acc ELSE DigitsValue(Tail(s), acc * 10 + DigitVal(Head(s)))

\* the number of leading decimal digits of s, at most max
LeadingDigits(s, max) ==
    LET lim == IF Len(s) < max THEN Len(s) ELSE max
    IN  IF \A i \in 1..lim : IsDigit(s[i]) THEN lim
        ELSE (CHOOSE i \in 1..lim : ~IsDigit(s[i]) /\ \A j \in 1..(i - 1) : IsDigit(s[j])) - 1

\* chrono::format::scan::number(s, min, max): between min and max digits
ScanNumber(s, min, max) ==
    LET n == LeadingDigits(s, max)
    IN  IF Len(s) < min THEN Err("TooShort")
        ELSE IF n < min THEN Err("Invalid")
        ELSE Ok([value |-> DigitsValue(SubSeq(s, 1, n), 0), rest |-> SubSeq(s, n + 1, Len(s))])

\* the signed numeric item %Y: an explicit sign lifts the four-digit limit
ScanYear(s) ==
    IF s # <<>> /\ Head(s) = "-"
    THEN LET r == ScanNumber(Tail(s), 1, Len(s))
         IN  IF IsOk(r) THEN Ok([value |-> 0 - r.val.value, rest |-> r.val.rest]) ELSE r
    ELSE IF s # <<>> /\ Head(s) = "+" THEN ScanNumber(Tail(s), 1, Len(s))
    ELSE ScanNumber(s, 1, 4)

\* a literal item of the format string
ScanLiteral(s, c) ==
    IF s = <<>> THEN Err("TooShort")
    ELSE IF Head(s) # c THEN Err("Invalid")
    ELSE Ok(Tail(s))

\* NaiveDate::parse_from_str(s, "%Y-%m-%d")
ParseDate(s) ==
    LET y == ScanYear(s) IN
    IF ~IsOk(y) THEN y ELSE
    LET l1 == ScanLiteral(y.val.rest, "-") IN
    IF ~IsOk(l1) THEN l1 ELSE
    LET m == ScanNumber(l1.val, 1, 2) IN
    IF ~IsOk(m) THEN m ELSE
    LET l2 == ScanLiteral(m.val.rest, "-") IN
    IF ~IsOk(l2) THEN l2 ELSE
    LET d == ScanNumber(l2.val, 1, 2) IN
    IF ~IsOk(d) THEN d
    ELSE IF d.val.rest # <<>> THEN Err("TooLong")
    ELSE IF ~IsValidDate(y.val.value, m.val.value, d.val.value) THEN Err("OutOfRange")
    ELSE Ok(NaiveDate(y.val.value, m.val.value, d.val.value))

----------------------------------------------------------------------------
(* Player counts *)

PlayersCount(current, max) == [current_players |-> current, max_players |-> max]

\* a faulty format!: the two counts in the wrong order
FormatPlayersCountSwapped(c) ==
    U32ToString(c.max_players) \o <<"/">> \o U32ToString(c.current_players)

\* format!("{}/{}", current_players, max_players)
FormatPlayersCount(c) ==
    U32ToString(c.current_players) \o <<"/">> \o U32ToString(c.max_players)

\* the closure with split_once('/') in place of split('/'): the second part
\* is everything after the first '/'
ParsePlayersCountSplitOnce(s) ==
    LET splitted == Split(s, "/")
        first    == U32FromStr(splitted[1])
    IN  IF ~IsOk(first) THEN Panic("ParseIntError")
        ELSE IF Len(splitted) < 2 THEN Panic("unwrap on None")
        ELSE LET second == U32FromStr(SubSeq(s, Len(splitted[1]) + 2, Len(s)))
             IN  IF ~IsOk(second) THEN Panic("ParseIntError")
                 ELSE Ok(PlayersCount(first.val, second.val))

\* the closure of raw.players_count.map(..): split on '/', take the first two
\* segments, unwrap both the segment and its parse
ParsePlayersCount(s) ==
    LET splitted == Split(s, "/")
        first    == U32FromStr(splitted[1])
    IN  IF ~IsOk(first) THEN Panic("ParseIntError")
        ELSE IF Len(splitted) < 2 THEN Panic("unwrap on None")
        ELSE LET second == U32FromStr(splitted[2])
             IN  IF ~IsOk(second) THEN Panic("ParseIntError")
                 ELSE Ok(PlayersCount(first.val, second.val))

----------------------------------------------------------------------------
(* Description text: base64 (standard alphabet, padded) over UTF-8 bytes *)

B64Alphabet ==
    <<"A", "B", "C", "D", "E", "F", "G", "H", "I", "J", "K", "L", "M",
      "N", "O", "P", "Q", "R", "S", "T", "U", "V", "W", "X", "Y", "Z",
      "a", "b", "c", "d", "e", "f", "g", "h", "i", "j", "k", "l", "m",
      "n", "o", "p", "q", "r", "s", "t", "u", "v", "w", "x", "y", "z",
      "0", "1", "2", "3", "4", "5", "6", "7", "8", "9", "+", "/">>

IsB64Symbol(c) == \E i \in 1..64 : B64Alphabet[i] = c

B64Value(c) == (CHOOSE i \in 1..64 : B64Alphabet[i] = c) - 1

B64Symbol(v) == B64Alphabet[v + 1]

\* base64::encode(bytes)
RECURSIVE Base64Encode(_)
Base64Encode(b) ==
    IF Len(b) = 0 THEN <<>>
    ELSE IF Len(b) = 1
    THEN LET n == b[1] * 16
         IN  <<B64Symbol(n \div 64), B64Symbol(n % 64), "=", "=">>
    ELSE IF Len(b) = 2
    THEN LET n == (b[1] * 256 + b[2]) * 4
         IN  <<B64Symbol(n \div 4096), B64Symbol((n \div 64) % 64), B64Symbol(n % 64), "=">>
    ELSE LET n == b[1] * 65536 + b[2] * 256 + b[3]
         IN  <<B64Symbol(n \div 262144), B64Symbol((n \div 4096) % 64),
               B64Symbol((n \div 64) % 64), B64Symbol(n % 64)>>
             \o Base64Encode(SubSeq(b, 4, Len(b)))

\* the number of '=' characters that end s
RECURSIVE TrailingPads(_)
TrailingPads(s) ==
    IF s = <<>> \/ s[Len(s)] # "=" THEN 0 ELSE 1 + TrailingPads(SubSeq(s, 1, Len(s) - 1))

\* the bytes of a run of symbols; the last group of 2 or 3 symbols must leave
\* no bit set beyond its whole bytes
RECURSIVE B64DecodeSymbols(_)
B64DecodeSymbols(d) ==
    IF Len(d) = 0 THEN Ok(<<>>)
    ELSE IF Len(d) = 1 THEN Err("InvalidLength")
    ELSE IF Len(d) = 2
    THEN LET n == B64Value(d[1]) * 64 + B64Value(d[2])
         IN  IF n % 16 # 0 THEN Err("InvalidLastSymbol") ELSE Ok(<<n \div 16>>)
    ELSE IF Len(d) = 3
    THEN LET n == B64Value(d[1]) * 4096 + B64Value(d[2]) * 64 + B64Value(d[3])
         IN  IF n % 4 # 0 THEN Err("InvalidLastSymbol")
             ELSE Ok(<<n \div 1024, (n \div 4) % 256>>)
    ELSE LET n == B64Value(d[1]) * 262144 + B64Value(d[2]) * 4096
                  + B64Value(d[3]) * 64 + B64Value(d[4])
             r == B64DecodeSymbols(SubSeq(d, 5, Len(d)))
         IN  IF IsOk(r)
             THEN Ok(<<n \div 65536, (n \div 256) % 256, n % 256>> \o r.val)
             ELSE r

\* base64::decode(s).  Padding that completes the last group of four is
\* accepted by every release of the crate; missing padding is accepted by the
\* releases in which decoding does not require it (padOptional).
Base64Decode(s) ==
    LET p == TrailingPads(s)
        d == SubSeq(s, 1, Len(s) - p)
    IN  IF \E i \in 1..Len(d) : ~IsB64Symbol(d[i]) THEN Err("InvalidByte")
        ELSE IF Len(d) % 4 = 1 THEN Err("InvalidLength")
        ELSE IF p > (4 - (Len(d) % 4)) % 4 THEN Err("InvalidByte")
        ELSE IF p < (4 - (Len(d) % 4)) % 4 /\ ~padOptional THEN Err("InvalidPadding")
        ELSE B64DecodeSymbols(d)

IsCont(b) == 128 <= b /\ b <= 191

\* std::str::from_utf8(bytes).is_ok()
RECURSIVE Utf8Valid(_)
Utf8Valid(b) ==
    IF Len(b) = 0 THEN TRUE
    ELSE IF b[1] <= 127 THEN Utf8Valid(Tail(b))
    ELSE IF 194 <= b[1] /\ b[1] <= 223
    THEN Len(b) >= 2 /\ IsCont(b[2]) /\ Utf8Valid(SubSeq(b, 3, Len(b)))
    ELSE IF 224 <= b[1] /\ b[1] <= 239
    THEN /\ Len(b) >= 3
         /\ IsCont(b[2]) /\ IsCont(b[3])
         /\ (b[1] = 224 => b[2] >= 160)
         /\ (b[1] = 237 => b[2] <= 159)
         /\ Utf8Valid(SubSeq(b, 4, Len(b)))
    ELSE IF 240 <= b[1] /\ b[1] <= 244
    THEN /\ Len(b) >= 4
         /\ IsCont(b[2]) /\ IsCont(b[3]) /\ IsCont(b[4])
         /\ (b[1] = 240 => b[2] >= 144)
         /\ (b[1] = 244 => b[2] <= 143)
         /\ Utf8Valid(SubSeq(b, 5, Len(b)))
    ELSE FALSE

\* the closure of raw.info.map(..): decode, unwrap, from_utf8, unwrap
DecodeInfo(info) ==
    LET decoded == Base64Decode(info)
    IN  IF ~IsOk(decoded) THEN Panic("DecodeError")
        ELSE IF ~Utf8Valid(decoded.val) THEN Panic("Utf8Error")
        ELSE Ok(decoded.val)

\* the closure of raw.last_online.map(..): parse, unwrap, Date::from_utc
DecodeLastOnline(last_online) ==
    LET parsed == ParseDate(last_online)
    IN  IF ~IsOk(parsed) THEN Panic("ParseError") ELSE Ok(parsed.val)

----------------------------------------------------------------------------
(* Server records *)

\* a faulty struct literal: an absent mod count becomes a count of zero
ServerInfoLiteralDefaultMods(raw, last_online, players_count, players, info) ==
    IF ~IsOk(last_online) THEN last_online
    ELSE IF ~IsOk(players_count) THEN players_count
    ELSE IF ~IsOk(info) THEN info
    ELSE Ok([id            |-> raw.id,
             port          |-> raw.port,
             last_online   |-> last_online.val,
             players_count |-> players_count.val,
             players       |-> players,
             info          |-> info.val,
             friendly_fire |-> raw.friendly_fire,
             whitelist     |-> raw.whitelist,
             modded        |-> raw.modded,
             mods          |-> IF IsNone(raw.mods) THEN Some(0) ELSE raw.mods,
             suppress      |-> raw.suppress,
             auto_suppress |-> raw.auto_suppress])

\* the struct literal of ServerInfo::from, its four converted fields
\* evaluated in the order written: the first closure that panics ends the
\* conversion
ServerInfoLiteral(raw, last_online, players_count, players, info) ==
    IF ~IsOk(last_online) THEN last_online
    ELSE IF ~IsOk(players_count) THEN players_count
    ELSE IF ~IsOk(info) THEN info
    ELSE Ok([id            |-> raw.id,
             port          |-> raw.port,
             last_online   |-> last_online.val,
             players_count |-> players_count.val,
             players       |-> players,
             info          |-> info.val,
             friendly_fire |-> raw.friendly_fire,
             whitelist     |-> raw.whitelist,
             modded        |-> raw.modded,
             mods          |-> raw.mods,
             suppress      |-> raw.suppress,
             auto_suppress |-> raw.auto_suppress])

\* impl From<RawServerInfo> for ServerInfo
ServerInfoFromRawServerInfo(raw) ==
    ServerInfoLiteral(
        raw,
        IF IsNone(raw.last_online) THEN Ok(None)
        ELSE SomeOf(DecodeLastOnline(Unwrapped(raw.last_online))),
        IF IsNone(raw.players_count) THEN Ok(None)
        ELSE SomeOf(ParsePlayersCount(Unwrapped(raw.players_count))),
        IF IsNone(raw.players) THEN None
        ELSE Some([i \in 1..Len(Unwrapped(raw.players)) |->
                     PlayerFromRawPlayer(Unwrapped(raw.players)[i])]),
        IF IsNone(raw.info) THEN Ok(None)
        ELSE SomeOf(DecodeInfo(Unwrapped(raw.info))))

\* impl From<ServerInfo> for RawServerInfo
RawServerInfoFromServerInfo(server_info) ==
    [id            |-> server_info.id,
     port          |-> server_info.port,
     last_online   |-> IF IsNone(server_info.last_online) THEN None
                       ELSE Some(FormatDate(Unwrapped(server_info.last_online))),
     players_count |-> IF IsNone(server_info.players_count) THEN None
                       ELSE Some(FormatPlayersCount(Unwrapped(server_info.players_count))),
     players       |-> IF IsNone(server_info.players) THEN None
                       ELSE Some([i \in 1..Len(Unwrapped(server_info.players)) |->
                                    RawPlayerFromPlayer(Unwrapped(server_info.players)[i])]),
     info          |-> IF IsNone(server_info.info) THEN None
                       ELSE Some(Base64Encode(Unwrapped(server_info.info))),
     friendly_fire |-> server_info.friendly_fire,
     whitelist     |-> server_info.whitelist,
     modded        |-> server_info.modded,
     mods          |-> server_info.mods,
     suppress      |-> server_info.suppress,
     auto_suppress |-> server_info.auto_suppress]

----------------------------------------------------------------------------
(* Responses *)

SuccessResponse(cooldown, servers) ==
    [variant |-> "Success", cooldown |-> cooldown, servers |-> servers]

ErrorResponse(error) == [variant |-> "Error", error |-> error]

RawResponse(success, error, servers, cooldown) ==
    [success |-> success, error |-> error, servers |-> servers, cooldown |-> cooldown]

\* into_iter().map(ServerInfo::from).collect(): the servers are converted in
\* order, and the first conversion that panics ends the collection
CollectServers(servers) ==
    IF \E i \in DOMAIN servers : ~IsOk(servers[i])
    THEN servers[CHOOSE i \in DOMAIN servers :
                    ~IsOk(servers[i]) /\ \A j \in 1..(i - 1) : IsOk(servers[j])]
    ELSE Ok([i \in DOMAIN servers |-> servers[i].val])

SuccessOf(cooldown, servers) ==
    IF IsOk(servers) THEN Ok(SuccessResponse(cooldown, servers.val)) ELSE servers

\* a faulty From<RawResponse>: the success flag, not the presence of the
\* error, selects the variant
ResponseFromRawResponseBySuccess(raw) ==
    IF ~raw.success /\ IsSome(raw.error) THEN Ok(ErrorResponse(Unwrapped(raw.error)))
    ELSE IF IsNone(raw.cooldown) THEN Panic("unwrap on None")
    ELSE IF IsNone(raw.servers) THEN Panic("unwrap on None")
    ELSE SuccessOf(Unwrapped(raw.cooldown),
                   CollectServers([i \in 1..Len(Unwrapped(raw.servers)) |->
                       ServerInfoFromRawServerInfo(Unwrapped(raw.servers)[i])]))

\* impl From<RawResponse> for Response
ResponseFromRawResponse(raw) ==
    IF IsSome(raw.error) THEN Ok(ErrorResponse(Unwrapped(raw.error)))
    ELSE IF IsNone(raw.cooldown) THEN Panic("unwrap on None")
    ELSE IF IsNone(raw.servers) THEN Panic("unwrap on None")
    ELSE SuccessOf(Unwrapped(raw.cooldown),
                   CollectServers([i \in 1..Len(Unwrapped(raw.servers)) |->
                       ServerInfoFromRawServerInfo(Unwrapped(raw.servers)[i])]))

\* a faulty From<Response>: the error variant keeps the fields of a success
RawResponseFromResponseFilled(response) ==
    IF response.variant = "Success"
    THEN RawResponse(TRUE, None,
                     Some([i \in 1..Len(response.servers) |->
                             RawServerInfoFromServerInfo(response.servers[i])]),
                     Some(response.cooldown))
    ELSE RawResponse(FALSE, Some(response.error), Some(<<>>), Some(0))

\* impl From<Response> for RawResponse
RawResponseFromResponse(response) ==
    IF response.variant = "Success"
    THEN RawResponse(TRUE, None,
                     Some([i \in 1..Len(response.servers) |->
                             RawServerInfoFromServerInfo(response.servers[i])]),
                     Some(response.cooldown))
    ELSE RawResponse(FALSE, Some(response.error), None, None)

----------------------------------------------------------------------------
(* JSON documents and the derived Deserialize of the wire structs.         *)
(* A document is a tree: JObj holds the key/value pairs in document order, *)
(* so that a key may occur twice.                                          *)

JNull == [t |-> "null"]

JBool(b) == [t |-> "bool", b |-> b]

JNum(n) == [t |-> "num", n |-> n]

JStr(str) == [t |-> "str", s |-> str]

JArr(xs) == [t |-> "arr", a |-> xs]

JObj(pairs) == [t |-> "obj", o |-> pairs]

\* a response body that is not a JSON document
JInvalid == [t |-> "invalid"]

Field(name, key, base, required) ==
    [name |-> name, key |-> key, base |-> base, required |-> required]

\* struct RawResponse: the field names with their serde(rename) keys, in
\* declaration order
RawResponseFields ==
    <<Field("success",  "Success", "bool", TRUE),
      Field("error",    "Error",   "String", FALSE),
      Field("servers",  "Servers", "Vec<RawServerInfo>", FALSE),
      Field("cooldown", "Success", "u64", FALSE)>>

\* struct RawServerInfo
RawServerInfoFields ==
    <<Field("id",            "ID",           "u64", TRUE),
      Field("port",          "Port",         "u16", TRUE),
      Field("last_online",   "LastOnline",   "String", FALSE),
      Field("players_count", "Players",      "String", FALSE),
      Field("players",       "PlayersList",  "Vec<RawPlayer>", FALSE),
      Field("info",          "Info",         "String", FALSE),
      Field("friendly_fire", "FF",           "bool", FALSE),
      Field("whitelist",     "WL",           "bool", FALSE),
      Field("modded",        "Modded",       "bool", FALSE),
      Field("mods",          "Mods",         "u64", FALSE),
      Field("suppress",      "Suppress",     "bool", FALSE),
      Field("auto_suppress", "AutoSuppress", "bool", FALSE)>>

\* enum RawPlayer, variant UserIdWithNickname
UserIdWithNicknameFields ==
    <<Field("id",       "ID",       "String", TRUE),
      Field("nickname", "Nickname", "String", FALSE)>>

U16Max == 65535

\* Deserialize for bool, u64, u16 and String
DeserializeScalar(base, json) ==
    IF base = "bool"
    THEN IF json.t = "bool" THEN Ok(json.b) ELSE Err("invalid type")
    ELSE IF base = "u64"
    THEN IF json.t = "num" /\ json.n >= 0 THEN Ok(json.n) ELSE Err("invalid type")
    ELSE IF base = "u16"
    THEN IF json.t = "num" /\ json.n >= 0 /\ json.n <= U16Max THEN Ok(json.n)
         ELSE Err("invalid value")
    ELSE IF json.t = "str" THEN Ok(json.s) ELSE Err("invalid type")

\* Deserialize for Vec<T>, from the results of Deserialize for T on the
\* elements: the first error ends it
DeserializeVec(json, results) ==
    IF json.t # "arr" THEN Err("invalid type")
    ELSE IF \E k \in DOMAIN results : ~IsOk(results[k])
    THEN results[CHOOSE k \in DOMAIN results :
                    ~IsOk(results[k]) /\ \A j \in 1..(k - 1) : IsOk(results[j])]
    ELSE Ok([k \in DOMAIN results |-> results[k].val])

\* Deserialize for the type of a field, from the result of Deserialize for
\* its base type: a required field holds T, any other Option<T>, for which
\* null is None
DeserializeField(field, json, result) ==
    IF field.required THEN result
    ELSE IF json.t = "null" THEN Ok(None)
    ELSE SomeOf(result)

\* the generated field visitor: a key selects the first field that carries
\* it (the match arm of a later field with the same key is unreachable);
\* 0 stands for an unknown key, whose value is skipped
FieldIndex(fields, key) ==
    IF \A i \in 1..Len(fields) : fields[i].key # key THEN 0
    ELSE CHOOSE i \in 1..Len(fields) :
             fields[i].key = key /\ \A j \in 1..(i - 1) : fields[j].key # key

\* the elements of the document a struct is read from: the pairs of an
\* object (visit_map) or the items of an array (visit_seq)
ElementCount(json) ==
    IF json.t = "obj" THEN Len(json.o) ELSE IF json.t = "arr" THEN Len(json.a) ELSE 0

ElementValue(json, k) == IF json.t = "obj" THEN json.o[k][2] ELSE json.a[k]

\* the field element k is read as: by key in an object, by position in an array
ElementField(fields, json, k) ==
    IF json.t = "obj" THEN FieldIndex(fields, json.o[k][1])
    ELSE IF k <= Len(fields) THEN k ELSE 0

\* the struct value from the slots the visitor filled; an unfilled slot is
\* an error for a required field and the default (None) otherwise
FinishStruct(fields, slots) ==
    IF \E i \in 1..Len(fields) : fields[i].required /\ IsNone(slots[i])
    THEN Err("missing field")
    ELSE Ok([n \in {fields[i].name : i \in 1..Len(fields)} |->
                LET i == CHOOSE k \in 1..Len(fields) : fields[k].name = n
                IN  IF IsNone(slots[i]) THEN None ELSE Unwrapped(slots[i])])

\* the derived visitor, from the results of Deserialize on the elements:
\* the elements are taken in document order; a second element for a field
\* is a duplicate, and the first error ends the visit
VisitStruct(fields, json, results) ==
    IF json.t \notin {"obj", "arr"} THEN Err("invalid type")
    ELSE IF json.t = "arr" /\ Len(json.a) > Len(fields) THEN Err("trailing characters")
    ELSE IF \E k \in DOMAIN results :
                /\ ElementField(fields, json, k) # 0
                /\ \E j \in 1..(k - 1) :
                       ElementField(fields, json, j) = ElementField(fields, json, k)
    THEN Err("duplicate field")
    ELSE IF \E k \in DOMAIN results :
                ElementField(fields, json, k) # 0 /\ ~IsOk(results[k])
    THEN Err("invalid type")
    ELSE FinishStruct(fields,
             [i \in 1..Len(fields) |->
                 IF \E k \in DOMAIN results : ElementField(fields, json, k) = i
                 THEN Some(results[CHOOSE k \in DOMAIN results :
                                      ElementField(fields, json, k) = i].val)
                 ELSE None])

\* Deserialize of element k of a struct whose fields are all scalar
ScalarElement(fields, json, k) ==
    IF ElementField(fields, json, k) = 0 THEN Ok(None)
    ELSE DeserializeField(fields[ElementField(fields, json, k)], ElementValue(json, k),
             DeserializeScalar(fields[ElementField(fields, json, k)].base,
                               ElementValue(json, k)))

\* #[serde(untagged)] enum RawPlayer: the first variant that deserializes
PlayerOf(r) ==
    IF IsOk(r) THEN Ok(UserIdWithNickname(r.val.id, r.val.nickname))
    ELSE Err("data did not match any variant")

DeserializeRawPlayer(json) ==
    IF json.t = "str" THEN Ok(UserId(json.s))
    ELSE PlayerOf(VisitStruct(UserIdWithNicknameFields, json,
             [k \in 1..ElementCount(json) |->
                 ScalarElement(UserIdWithNicknameFields, json, k)]))

DeserializeRawPlayers(json) ==
    DeserializeVec(json,
        [k \in 1..ElementCount(json) |-> DeserializeRawPlayer(json.a[k])])

\* Deserialize of element k of a RawServerInfo
ServerElement(json, k) ==
    IF ElementField(RawServerInfoFields, json, k) = 0 THEN Ok(None)
    ELSE IF RawServerInfoFields[ElementField(RawServerInfoFields, json, k)].base
                = "Vec<RawPlayer>"
    THEN DeserializeField(RawServerInfoFields[ElementField(RawServerInfoFields, json, k)],
                          ElementValue(json, k),
                          DeserializeRawPlayers(ElementValue(json, k)))
    ELSE ScalarElement(RawServerInfoFields, json, k)

\* #[derive(Deserialize)] struct RawServerInfo
DeserializeRawServerInfo(json) ==
    VisitStruct(RawServerInfoFields, json,
        [k \in 1..ElementCount(json) |-> ServerElement(json, k)])

DeserializeRawServerInfos(json) ==
    DeserializeVec(json,
        [k \in 1..ElementCount(json) |-> DeserializeRawServerInfo(json.a[k])])

\* Deserialize of element k of a RawResponse
ResponseElement(json, k) ==
    IF ElementField(RawResponseFields, json, k) = 0 THEN Ok(None)
    ELSE IF RawResponseFields[ElementField(RawResponseFields, json, k)].base
                = "Vec<RawServerInfo>"
    THEN DeserializeField(RawResponseFields[ElementField(RawResponseFields, json, k)],
                          ElementValue(json, k),
                          DeserializeRawServerInfos(ElementValue(json, k)))
    ELSE ScalarElement(RawResponseFields, json, k)

\* #[derive(Deserialize)] struct RawResponse, through serde_json::from_str
\* or reqwest's Response::json
DeserializeRawResponse(json) ==
    IF json.t = "invalid" THEN Err("syntax")
    ELSE VisitStruct(RawResponseFields, json,
             [k \in 1..ElementCount(json) |-> ResponseElement(json, k)])

----------------------------------------------------------------------------
(* The values the operations are applied to *)

MaxPlayers == 2

MaxServers == 2

\* how many times over a wire player is taken to the domain and back
MaxPasses == 2

\* the sequences over S of length at most n
RECURSIVE SeqsUpTo(_, _)
SeqsUpTo(S, n) ==
    IF n = 0 THEN {<<>>}
    ELSE LET shorter == SeqsUpTo(S, n - 1)
         IN  shorter \cup {Append(q, x) : q \in {r \in shorter : Len(r) = n - 1}, x \in S}

Opt(S) == {None} \cup {Some(x) : x \in S}

Ids == {<<"a">>, <<"7", "6", "5", "6", "1", "1", "9", "8", "@", "s", "t", "e", "a", "m">>}

Nicknames == {<<>>, <<"N", "i", "c", "k">>}

Players == {Player(id, n) : id \in Ids, n \in Opt(Nicknames)}

RawPlayers ==
    {UserId(id) : id \in Ids}
        \cup {UserIdWithNickname(id, n) : id \in Ids, n \in Opt(Nicknames)}

Dates ==
    {NaiveDate(2023, 2, 28), NaiveDate(2024, 2, 29), NaiveDate(999, 12, 31),
     NaiveDate(-1, 1, 1), NaiveDate(10000, 10, 9)}

U32Values == {U32(0), U32(5), U32(20), <<1, 0>>, <<65535, 65535>>}

Counts == {PlayersCount(c, m) : c \in U32Values, m \in U32Values}

\* domain text: UTF-8 bytes ("", "Hello", "e-acute", U+FFFF U+10000)
Texts ==
    {<<>>, <<72, 101, 108, 108, 111>>, <<195, 169>>, <<72, 105>>,
     <<239, 191, 191, 240, 144, 128, 128>>}

ServerIds == {0, 7}

Ports == {0, 7777, U16Max}

Flags == Opt(BOOLEAN)

ModCounts == Opt({0, 3})

ServerInfoOf(id, port, lo, pc_, pl, info, ff, wl, md, mods, su, au) ==
    [id |-> id, port |-> port, last_online |-> lo, players_count |-> pc_,
     players |-> pl, info |-> info, friendly_fire |-> ff, whitelist |-> wl,
     modded |-> md, mods |-> mods, suppress |-> su, auto_suppress |-> au]

\* domain records: the four encoded fields in every combination of a few
\* values, and the six copied fields in every combination
ServerInfos ==
    {ServerInfoOf(7, 7777, lo, c, pl, i, Some(TRUE), Some(FALSE), Some(TRUE),
                  Some(3), Some(FALSE), Some(TRUE)) :
        lo \in Opt({NaiveDate(2023, 2, 28), NaiveDate(-1, 1, 1)}),
        c \in Opt({PlayersCount(U32(5), U32(20)), PlayersCount(<<65535, 65535>>, U32(0))}),
        pl \in Opt(SeqsUpTo(Players, MaxPlayers)),
        i \in Opt({<<>>, <<72, 105>>})}
    \cup
    {ServerInfoOf(id, port, Some(lo), Some(c), Some(<<>>), Some(i), Some(TRUE),
                  Some(TRUE), Some(FALSE), Some(0), Some(FALSE), Some(FALSE)) :
        id \in ServerIds, port \in Ports, lo \in Dates, c \in Counts, i \in Texts}
    \cup
    {ServerInfoOf(0, U16Max, None, None, None, None, ff, wl, md, mods, su, au) :
        ff \in Flags, wl \in Flags, md \in Flags, mods \in ModCounts,
        su \in Flags, au \in Flags}

\* wire LastOnline strings: year, month and day in and out of range, with
\* either separator and with or without a trailing character; and a few
\* other shapes
WireDates ==
    {PadZero(y, 4) \o s1 \o PadZero(m, 2) \o s2 \o PadZero(d, 2) \o x :
        y \in {2023, 2024}, m \in {0, 2, 4, 12, 13}, d \in {0, 1, 28, 29, 30, 31, 32},
        s1 \in {<<"-">>, <<"/">>}, s2 \in {<<"-">>, <<"/">>}, x \in {<<>>, <<"x">>}}
    \cup {<<>>, <<"2", "0", "2", "3", "-", "2", "-", "8">>, <<"2", "0", "2", "3", "0", "2", "2", "8">>, <<"-", "0", "0", "0", "1", "-", "0", "1", "-", "0", "1">>, <<"+", "1", "0", "0", "0", "0", "-", "1", "0", "-", "0", "9">>,
          <<"2", "0", "2", "3", "3", "-", "0", "1", "-", "0", "1">>, <<"2", "0", "2", "3", "-", "0", "2">>, <<"2", "8", "-", "0", "2", "-", "2", "0", "2", "3">>, <<"2", "0", "2", "3", "-", "0", "2", "-", "2", "8", "-">>}

\* the parts of wire Players strings
CountTokens ==
    {<<>>, <<"0">>, <<"5">>, <<"2", "0">>, <<"a", "b", "c">>, <<"+", "5">>, <<"-", "1">>, <<"0", "0", "7">>, <<"+">>, <<"5", "x">>,
     <<"6", "5", "5", "3", "6">>, <<"4", "2", "9", "4", "9", "6", "7", "2", "9", "5">>, <<"4", "2", "9", "4", "9", "6", "7", "2", "9", "6">>, <<"9", "9", "9", "9", "9", "9", "9", "9", "9", "9", "9">>}

WireCounts ==
    CountTokens
        \cup {a \o <<"/">> \o b : a \in CountTokens, b \in CountTokens}
        \cup {<<"5", "/", "2", "0", "/", "7">>, <<"5", "/", "2", "0", "/">>, <<"5", "/", "/", "2", "0">>, <<"/", "5", "/", "2", "0">>}

\* byte strings that are not UTF-8
BadTexts == {<<255>>, <<195>>, <<128>>, <<237, 160, 128>>, <<72, 192, 128>>}

\* wire Info strings that every release of the base64 crate rejects
BadBase64 ==
    {<<"n", "o", "t", "-", "b", "a", "s", "e", "6", "4", "!">>, <<"A">>, <<"=", "=", "=", "=">>, <<"S", "G", "V", "=">>, <<"S", "G", "V", "s", "b", "G", "9", "=">>, <<"S", "G", "V", "s", "b", "G", "8", "=", "=">>,
     <<"S", "G", "=", "s", "b", "G", "8", "=">>, <<"S", "G", "V", "s", "_", "G", "8", "=">>, <<"S", "G", "V", "s", "b", "G", "8", "=", "x">>, <<"S", "G", "V", "s", "b">>}

\* wire Info strings without their padding
UnpaddedBase64 == {<<"S", "G", "V", "s", "b", "G", "8">>, <<"S", "G", "k">>, <<"w", "6", "k">>, <<"/", "w">>}

WireInfos ==
    {Base64Encode(t) : t \in Texts \cup BadTexts} \cup BadBase64 \cup UnpaddedBase64

RawServerInfoOf(id, port, lo, pc_, pl, info, ff, wl, md, mods, su, au) ==
    ServerInfoOf(id, port, lo, pc_, pl, info, ff, wl, md, mods, su, au)

\* wire records: each encoded field through all its strings with the others
\* absent or well-formed, a product of a few strings of each, and the copied
\* fields in every combination
RawServerInfos ==
    {RawServerInfoOf(id, port, lo, None, None, None, None, None, None, None, None, None) :
        id \in ServerIds, port \in Ports, lo \in Opt(WireDates)}
    \cup
    {RawServerInfoOf(7, 7777, Some(<<"2", "0", "2", "3", "-", "0", "2", "-", "2", "8">>), c, None, Some(<<"S", "G", "V", "s", "b", "G", "8", "=">>),
                     Some(TRUE), None, None, None, None, None) :
        c \in Opt(WireCounts)}
    \cup
    {RawServerInfoOf(7, 7777, None, Some(<<"5", "/", "2", "0">>), pl, i, None, Some(FALSE), None,
                     Some(3), None, None) :
        pl \in Opt(SeqsUpTo(RawPlayers, MaxPlayers)), i \in {None, Some(<<"S", "G", "k", "=">>)}}
    \cup
    {RawServerInfoOf(7, 7777, None, None, Some(<<>>), i, None, None, None, None,
                     None, None) :
        i \in Opt(WireInfos)}
    \cup
    {RawServerInfoOf(0, 0, lo, c, None, i, None, None, Some(TRUE), None, None, None) :
        lo \in Opt({<<"2", "0", "2", "4", "-", "0", "2", "-", "2", "9">>, <<"2", "0", "2", "3", "-", "0", "2", "-", "3", "0">>}),
        c \in Opt({<<"0", "/", "0">>, <<"5">>}),
        i \in Opt({<<"w", "6", "k", "=">>, <<"/", "w", "=", "=">>})}
    \cup
    {RawServerInfoOf(0, U16Max, None, None, None, None, ff, wl, md, mods, su, au) :
        ff \in Flags, wl \in Flags, md \in Flags, mods \in ModCounts,
        su \in Flags, au \in Flags}

\* wire server entries for responses, well-formed and not
RawServerSamples ==
    {RawServerInfoOf(7, 7777, None, None, None, None, None, None, None, None, None, None),
     RawServerInfoOf(0, 0, Some(<<"2", "0", "2", "3", "-", "0", "2", "-", "2", "8">>), Some(<<"5", "/", "2", "0">>),
                     Some(<<UserId(<<"a">>), UserIdWithNickname(<<"a">>, Some(<<"N", "i", "c", "k">>))>>),
                     Some(<<"S", "G", "V", "s", "b", "G", "8", "=">>), Some(TRUE), Some(FALSE), Some(TRUE), Some(3),
                     Some(FALSE), Some(TRUE)),
     RawServerInfoOf(1, 1, Some(<<"2", "0", "2", "3", "-", "0", "2", "-", "3", "0">>), None, None, None, None, None, None,
                     None, None, None),
     RawServerInfoOf(2, 2, None, Some(<<"5">>), None, None, None, None, None, None,
                     None, None),
     RawServerInfoOf(3, 3, None, None, None, Some(<<"n", "o", "t", "-", "b", "a", "s", "e", "6", "4", "!">>), None, None, None,
                     None, None, None)}

ErrorTexts == {<<>>, <<"r", "a", "t", "e", " ", "l", "i", "m", "i", "t", "e", "d">>}

Cooldowns == {0, 30}

RawResponses ==
    {RawResponse(success, error, servers, cooldown) :
        success \in BOOLEAN, error \in Opt(ErrorTexts),
        servers \in Opt(SeqsUpTo(RawServerSamples, MaxServers)),
        cooldown \in Opt(Cooldowns)}

\* JSON of a wire server entry, every present field under its key
ServerJson(raw) ==
    JObj(<<<<"ID", JNum(raw.id)>>, <<"Port", JNum(raw.port)>>>>
         \o (IF IsSome(raw.last_online)
             THEN <<<<"LastOnline", JStr(Unwrapped(raw.last_online))>>>> ELSE <<>>)
         \o (IF IsSome(raw.players_count)
             THEN <<<<"Players", JStr(Unwrapped(raw.players_count))>>>> ELSE <<>>)
         \o (IF IsSome(raw.players)
             THEN <<<<"PlayersList",
                      JArr([i \in 1..Len(Unwrapped(raw.players)) |->
                              LET pl == Unwrapped(raw.players)[i]
                              IN  IF pl.variant = "UserId" THEN JStr(pl.id)
                                  ELSE JObj(<<<<"ID", JStr(pl.id)>>,
                                              <<"Nickname",
                                                IF IsSome(pl.nickname)
                                                THEN JStr(Unwrapped(pl.nickname))
                                                ELSE JNull>>>>)])>>>>
             ELSE <<>>)
         \o (IF IsSome(raw.info) THEN <<<<"Info", JStr(Unwrapped(raw.info))>>>> ELSE <<>>)
         \o (IF IsSome(raw.friendly_fire)
             THEN <<<<"FF", JBool(Unwrapped(raw.friendly_fire))>>>> ELSE <<>>)
         \o (IF IsSome(raw.whitelist)
             THEN <<<<"WL", JBool(Unwrapped(raw.whitelist))>>>> ELSE <<>>)
         \o (IF IsSome(raw.modded)
             THEN <<<<"Modded", JBool(Unwrapped(raw.modded))>>>> ELSE <<>>)
         \o (IF IsSome(raw.mods) THEN <<<<"Mods", JNum(Unwrapped(raw.mods))>>>> ELSE <<>>)
         \o (IF IsSome(raw.suppress)
             THEN <<<<"Suppress", JBool(Unwrapped(raw.suppress))>>>> ELSE <<>>)
         \o (IF IsSome(raw.auto_suppress)
             THEN <<<<"AutoSuppress", JBool(Unwrapped(raw.auto_suppress))>>>> ELSE <<>>))

ServersJson(servers) == JArr([i \in 1..Len(servers) |-> ServerJson(servers[i])])

\* response documents as the API reference and the wire struct describe
\* them: an object with Success, and any of Error, Servers and the cooldown,
\* the cooldown under the key the wire struct gives it ("Success") or under
\* "Cooldown"; the key order varies
ObjectBodies ==
    {JObj(first \o error \o servers \o cooldown) :
        first \in {<<>>, <<<<"Success", JBool(TRUE)>>>>, <<<<"Success", JBool(FALSE)>>>>},
        error \in {<<>>, <<<<"Error", JStr(<<"r", "a", "t", "e", " ", "l", "i", "m", "i", "t", "e", "d">>)>>>>, <<<<"Error", JNull>>>>},
        servers \in {<<>>} \cup {<<<<"Servers", ServersJson(l)>>>> :
                                    l \in SeqsUpTo(RawServerSamples, MaxServers)},
        cooldown \in {<<>>, <<<<"Success", JNum(30)>>>>, <<<<"Cooldown", JNum(30)>>>>}}
    \cup
    {JObj(cooldown \o servers \o last) :
        cooldown \in {<<<<"Success", JNum(30)>>>>, <<<<"Cooldown", JNum(30)>>>>},
        servers \in {<<>>, <<<<"Servers", JArr(<<>>)>>>>},
        last \in {<<>>, <<<<"Success", JBool(TRUE)>>>>}}

\* response documents in the positional form serde accepts for a struct
ArrayBodies ==
    {JArr(<<JBool(success), error>> \o rest) :
        success \in BOOLEAN,
        error \in {JNull, JStr(<<"r", "a", "t", "e", " ", "l", "i", "m", "i", "t", "e", "d">>)},
        rest \in {<<>>} \cup {<<ServersJson(l)>> \o c :
                                 l \in SeqsUpTo(RawServerSamples, MaxServers),
                                 c \in {<<>>, <<JNum(30)>>, <<JNull>>}}}

Bodies ==
    ObjectBodies \cup ArrayBodies
        \cup {JInvalid, JNull, JStr(<<"o", "k">>), JNum(30), JArr(<<>>), JObj(<<>>)}

----------------------------------------------------------------------------
(* The conversions as operations: each is applied to a value of its input  *)
(* type; the result of a domain -> wire conversion can be converted back.  *)
(*   op    the conversion that ran last ("idle" before any)                *)
(*   arg   the value it was applied to                                     *)
(*   ret   what it did: Ok(value), Err(error) or Panic(message)            *)
(*   prev  Some(value the argument was converted from), for a way back     *)

ConvIdle == op = "idle" /\ arg = None /\ ret = None /\ prev = None /\ wire = <<>>

CallIdle == pc = "idle" /\ body = None /\ outcome = None /\ requests = 0

\* no call chosen, no request URL built, no builder made
ReqIdle == call = None /\ url = None /\ builder = None

Init == ConvIdle /\ CallIdle /\ ReqIdle /\ padOptional \in BOOLEAN

Apply(name, x, result) ==
    /\ op' = name
    /\ arg' = x
    /\ ret' = result
    /\ prev' = None
    /\ wire' = IF name = "Player::from" THEN <<x>> ELSE <<>>
    /\ UNCHANGED <<callVars, reqVars, padOptional>>

ApplyBack(name, result) ==
    /\ IsOk(ret)
    /\ op' = name
    /\ arg' = ret.val
    /\ ret' = result
    /\ prev' = Some(arg)
    /\ UNCHANGED <<callVars, reqVars, padOptional, wire>>

\* RawPlayer::from(player)
ConvertPlayer ==
    /\ op = "idle"
    /\ \E player \in Players :
        Apply("RawPlayer::from", player, Ok(RawPlayerFromPlayer(player)))

\* Player::from(raw)
ConvertRawPlayer ==
    /\ op = "idle"
    /\ \E raw \in RawPlayers :
        Apply("Player::from", raw, Ok(PlayerFromRawPlayer(raw)))

\* Player::from(RawPlayer::from(player))
ConvertPlayerBack ==
    /\ op = "RawPlayer::from"
    /\ ApplyBack("Player::from", Ok(PlayerFromRawPlayer(ret.val)))

\* RawPlayer::from(Player::from(raw)), for a chain that began on the wire
ConvertRawPlayerBack ==
    /\ op = "Player::from"
    /\ IsOk(ret)
    /\ wire # <<>>
    /\ Len(wire) <= MaxPasses
    /\ op' = "RawPlayer::from"
    /\ arg' = ret.val
    /\ ret' = Ok(RawPlayerFromPlayer(ret.val))
    /\ prev' = Some(arg)
    /\ wire' = Append(wire, RawPlayerFromPlayer(ret.val))
    /\ UNCHANGED <<callVars, reqVars, padOptional>>

\* RawServerInfo::from(server_info)
ConvertServerInfo ==
    /\ op = "idle"
    /\ \E server_info \in ServerInfos :
        Apply("RawServerInfo::from", server_info, Ok(RawServerInfoFromServerInfo(server_info)))

\* ServerInfo::from(raw)
ConvertRawServerInfo ==
    /\ op = "idle"
    /\ \E raw \in RawServerInfos :
        Apply("ServerInfo::from", raw, ServerInfoFromRawServerInfo(raw))

\* ServerInfo::from(RawServerInfo::from(server_info))
ConvertServerInfoBack ==
    /\ op = "RawServerInfo::from"
    /\ ApplyBack("ServerInfo::from", ServerInfoFromRawServerInfo(ret.val))

\* Response::from(raw)
ConvertRawResponse ==
    /\ op = "idle"
    /\ \E raw \in RawResponses :
        Apply("Response::from", raw, ResponseFromRawResponse(raw))

\* impl FromStr for Response (src/server_info.rs)
ResponseFromStr(json) ==
    LET raw == DeserializeRawResponse(json)
    IN  IF IsOk(raw) THEN ResponseFromRawResponse(raw.val) ELSE raw

ParseResponse ==
    /\ op = "idle"
    /\ \E json \in Bodies :
        Apply("Response::from_str", json, ResponseFromStr(json))

Next ==
    \/ ConvertPlayer
    \/ ConvertRawPlayer
    \/ ConvertPlayerBack
    \/ ConvertRawPlayerBack
    \/ ConvertServerInfo
    \/ ConvertRawServerInfo
    \/ ConvertServerInfoBack
    \/ ConvertRawResponse
    \/ ParseResponse

Spec == Init /\ [][Next]_vars

----------------------------------------------------------------------------
(* The call server_info::get (src/server_info/mod.rs with raw::get):       *)
(* one GET request, the body read as a RawResponse, the RawResponse        *)
(* converted.                                                              *)
(*   pc        "idle", "awaiting" (the request is out), "returned" (the    *)
(*             call returned a Result) or "panicked" (the call unwound)    *)
(*   requests  the GET requests the call has issued                        *)
(*   body      Some(document received)                                     *)
(*   outcome   Some(Ok(response)), Some(Err(error)) or Some(Panic(..))     *)

\* raw::get up to its first await: the URL is built and the request sent
GetSend ==
    /\ pc = "idle"
    /\ pc' = "awaiting"
    /\ requests' = requests + 1
    /\ UNCHANGED <<body, outcome, convVars, reqVars, padOptional>>

\* reqwest::get(url).await? or .json().await? fails in transport: the `?`
\* returns the reqwest::Error
GetTransportError ==
    /\ pc = "awaiting"
    /\ pc' = "returned"
    /\ outcome' = Some(Err("reqwest::Error"))
    /\ UNCHANGED <<body, requests, convVars, reqVars, padOptional>>

\* what get makes of a body: .json() decodes it, map(|response| response.into())
\* converts it
GetResult(json) ==
    IF IsOk(DeserializeRawResponse(json))
    THEN ResponseFromRawResponse(DeserializeRawResponse(json).val)
    ELSE Err("reqwest::Error")

\* the response arrives and get runs to its end
GetReceive ==
    /\ pc = "awaiting"
    /\ \E json \in Bodies :
        /\ body' = Some(json)
        /\ outcome' = Some(GetResult(json))
        /\ pc' = IF GetResult(json).tag = "Panic" THEN "panicked" ELSE "returned"
    /\ UNCHANGED <<requests, convVars, reqVars, padOptional>>

NextGet ==
    \/ GetSend
    \/ GetTransportError
    \/ GetReceive

SpecGet == Init /\ [][NextGet]_vars

----------------------------------------------------------------------------
(* Properties *)

OptionalFields ==
    {"last_online", "players_count", "players", "info", "friendly_fire",
     "whitelist", "modded", "mods", "suppress", "auto_suppress"}

AllPresent(server) == \A f \in OptionalFields : IsSome(server[f])

\* C1: a domain server record with all ten optional fields present, converted
\* to the wire record and back, is the record it was: the conversion back
\* returns, and returns a record equal to the original in every field.
C1_ServerInfoRoundTrip ==
    (op = "ServerInfo::from" /\ IsSome(prev) /\ AllPresent(Unwrapped(prev)))
        => (IsOk(ret) /\ ret.val = Unwrapped(prev))

\* a record with a sign-carrying year, a count above 16 bits, two players
\* (one with a nickname) and a non-empty description has made the round trip
C1_Witness ==
    /\ op = "ServerInfo::from"
    /\ IsSome(prev)
    /\ AllPresent(Unwrapped(prev))
    /\ Unwrapped(prev).last_online = Some(NaiveDate(-1, 1, 1))
    /\ Unwrapped(prev).players_count = Some(PlayersCount(<<65535, 65535>>, U32(0)))
    /\ Len(Unwrapped(Unwrapped(prev).players)) = 2
    /\ IsSome(Unwrapped(Unwrapped(prev).players)[1].nickname)
    /\ Unwrapped(prev).info = Some(<<72, 105>>)
    /\ IsOk(ret)
    /\ ret.val = Unwrapped(prev)

\* C2: a player without nickname converts to the bare-string variant
\* UserId(id), a player with a nickname to the object variant
\* UserIdWithNickname{id, Some(nickname)}, and converting that wire player
\* back gives the player it came from.
C2_PlayerRoundTrip ==
    /\ op = "RawPlayer::from" =>
          /\ IsOk(ret)
          /\ IsNone(arg.nickname) => ret.val = UserId(arg.id)
          /\ IsSome(arg.nickname) =>
                ret.val = UserIdWithNickname(arg.id, Some(Unwrapped(arg.nickname)))
    /\ (op = "Player::from" /\ IsSome(prev)) =>
          (IsOk(ret) /\ ret.val = Unwrapped(prev))

\* a player with a nickname has gone to the object variant and come back
C2_Witness ==
    /\ op = "Player::from"
    /\ IsSome(prev)
    /\ IsSome(Unwrapped(prev).nickname)
    /\ arg.variant = "UserIdWithNickname"
    /\ ret.val = Unwrapped(prev)

SamePresence(from, to) ==
    /\ \A f \in OptionalFields : IsNone(to[f]) <=> IsNone(from[f])
    /\ to.id = from.id
    /\ to.port = from.port

\* C3: in the wire record that Domain -> Wire produces, and in the domain
\* record that Wire -> Domain produces, each of the ten optional fields is
\* absent exactly when it is absent in the record converted, and id and port
\* are those of the record converted.
C3_PresencePreserved ==
    /\ op = "RawServerInfo::from" => SamePresence(arg, ret.val)
    /\ (op = "ServerInfo::from" /\ IsOk(ret)) => SamePresence(arg, ret.val)

\* a wire record with some fields present and the others absent has been
\* converted
C3_Witness ==
    /\ op = "ServerInfo::from"
    /\ prev = None
    /\ IsOk(ret)
    /\ IsSome(arg.players_count) /\ IsSome(ret.val.players_count)
    /\ IsSome(arg.whitelist) /\ IsSome(ret.val.whitelist)
    /\ IsSome(arg.mods) /\ IsSome(ret.val.mods)
    /\ IsNone(arg.last_online) /\ IsNone(ret.val.last_online)
    /\ IsNone(arg.modded) /\ IsNone(ret.val.modded)
    /\ IsNone(arg.auto_suppress) /\ IsNone(ret.val.auto_suppress)

\* C4: a wire response whose error is present converts to the Error variant
\* with exactly that text, whatever its success flag, servers and cooldown;
\* a wire response whose error is absent never converts to the Error variant.
C4_ErrorSelectsFailure ==
    op = "Response::from" =>
        /\ IsSome(arg.error) =>
              /\ IsOk(ret)
              /\ ret.val.variant = "Error"
              /\ ret.val.error = Unwrapped(arg.error)
        /\ IsNone(arg.error) => ~(IsOk(ret) /\ ret.val.variant = "Error")

\* a wire response with an error, success = true, servers and a cooldown has
\* been converted to the Error variant
C4_Witness ==
    /\ op = "Response::from"
    /\ arg.error = Some(<<"r", "a", "t", "e", " ", "l", "i", "m", "i", "t", "e", "d">>)
    /\ arg.success
    /\ IsSome(arg.servers)
    /\ IsSome(arg.cooldown)
    /\ IsOk(ret)
    /\ ret.val.variant = "Error"

HasPair(json, key, type) ==
    \E k \in 1..Len(json.o) : json.o[k][1] = key /\ json.o[k][2].t = type

PairValue(json, key, type) ==
    json.o[CHOOSE k \in 1..Len(json.o) : json.o[k][1] = key /\ json.o[k][2].t = type][2]

\* the wire record of a JSON server entry and its domain record
EntryRaw(json) == DeserializeRawServerInfo(json)

EntryConverts(json) ==
    IsOk(EntryRaw(json)) /\ IsOk(ServerInfoFromRawServerInfo(EntryRaw(json).val))

\* an object without Error, with a Servers array of decodable entries, and
\* with the key Success both for the flag and for the numeric cooldown
IsQuirkBody(json) ==
    /\ json.t = "obj"
    /\ \A k \in 1..Len(json.o) : json.o[k][1] # "Error"
    /\ HasPair(json, "Success", "bool")
    /\ HasPair(json, "Success", "num")
    /\ HasPair(json, "Servers", "arr")
    /\ \A i \in 1..Len(PairValue(json, "Servers", "arr").a) :
           EntryConverts(PairValue(json, "Servers", "arr").a[i])

\* C5: a response document with no Error key, a Servers array and the key
\* Success used for the flag and for the numeric cooldown parses and converts
\* to Response::Success with that cooldown and the converted entries in order.
C5_CooldownUnderSuccessKey ==
    (op = "Response::from_str" /\ IsQuirkBody(arg)) =>
        /\ IsOk(ret)
        /\ ret.val.variant = "Success"
        /\ ret.val.cooldown = PairValue(arg, "Success", "num").n
        /\ Len(ret.val.servers) = Len(PairValue(arg, "Servers", "arr").a)
        /\ \A i \in 1..Len(ret.val.servers) :
               ret.val.servers[i] =
                   ServerInfoFromRawServerInfo(
                       EntryRaw(PairValue(arg, "Servers", "arr").a[i]).val).val

\* C6: a wire response with no error in which the cooldown or the servers are
\* absent makes the conversion return an error value (MalformedPayload); it
\* produces no Success and does not abort.
C6_MissingFieldIsErrorValue ==
    (op = "Response::from" /\ IsNone(arg.error)
        /\ (IsNone(arg.cooldown) \/ IsNone(arg.servers)))
        => ret.tag = "Err"

DateDecodes(raw) ==
    IsNone(raw.last_online) \/ IsOk(DecodeLastOnline(Unwrapped(raw.last_online)))

CountDecodes(raw) ==
    IsNone(raw.players_count) \/ IsOk(ParsePlayersCount(Unwrapped(raw.players_count)))

InfoDecodes(raw) == IsNone(raw.info) \/ IsOk(DecodeInfo(Unwrapped(raw.info)))

AllDigits(str) == str # <<>> /\ \A i \in 1..Len(str) : IsDigit(str[i])

\* a non-negative integer in u32 range, in decimal digits
IsU32Literal(str) == AllDigits(str) /\ IsOk(U32Digits(str, U32(0)))

\* C7: a present player-count string "<a>/<b>" with a and b non-negative
\* integers in u32 range converts to PlayersCount{a, b}, whether or not
\* a <= b; a string with no '/' or with a part that is not an integer makes
\* the conversion return an error value (CountFormatError).
C7_CountFormat ==
    (op = "ServerInfo::from" /\ prev = None /\ IsSome(arg.players_count)
        /\ DateDecodes(arg) /\ InfoDecodes(arg)) =>
        LET parts == Split(Unwrapped(arg.players_count), "/")
        IN  /\ (Len(parts) = 2 /\ IsU32Literal(parts[1]) /\ IsU32Literal(parts[2])) =>
                  /\ IsOk(ret)
                  /\ ret.val.players_count =
                         Some(PlayersCount(U32Digits(parts[1], U32(0)).val,
                                           U32Digits(parts[2], U32(0)).val))
            /\ (Len(parts) = 1
                   \/ (Len(parts) = 2 /\ \E i \in 1..2 : ~AllDigits(parts[i]))) =>
                  ret.tag = "Err"

\* YYYY-MM-DD naming a real calendar day
IsIsoDate(str) ==
    /\ Len(str) = 10
    /\ \A i \in {1, 2, 3, 4, 6, 7, 9, 10} : IsDigit(str[i])
    /\ str[5] = "-" /\ str[8] = "-"
    /\ IsValidDate(DigitsValue(SubSeq(str, 1, 4), 0), DigitsValue(SubSeq(str, 6, 7), 0),
                   DigitsValue(SubSeq(str, 9, 10), 0))

IsoDate(str) ==
    NaiveDate(DigitsValue(SubSeq(str, 1, 4), 0), DigitsValue(SubSeq(str, 6, 7), 0),
              DigitsValue(SubSeq(str, 9, 10), 0))

\* C8: a present LastOnline string that is YYYY-MM-DD for a real calendar day
\* converts to that date; any other string makes the conversion return an
\* error value (DateFormatError).
C8_DateFormat ==
    (op = "ServerInfo::from" /\ prev = None /\ IsSome(arg.last_online)
        /\ CountDecodes(arg) /\ InfoDecodes(arg)) =>
        /\ IsIsoDate(Unwrapped(arg.last_online)) =>
              /\ IsOk(ret)
              /\ ret.val.last_online = Some(IsoDate(Unwrapped(arg.last_online)))
        /\ ~IsIsoDate(Unwrapped(arg.last_online)) => ret.tag = "Err"

\* C9: a present Info string that is the padded base64 of UTF-8 text converts
\* to that text; a string that is not valid base64, or whose bytes are not
\* UTF-8, makes the conversion return an error value (EncodingError).
C9_InfoEncoding ==
    (op = "ServerInfo::from" /\ prev = None /\ IsSome(arg.info)
        /\ DateDecodes(arg) /\ CountDecodes(arg)) =>
        /\ (\E t \in Texts : Base64Encode(t) = Unwrapped(arg.info)) =>
              /\ IsOk(ret)
              /\ ret.val.info =
                     Some(CHOOSE t \in Texts : Base64Encode(t) = Unwrapped(arg.info))
        /\ (Unwrapped(arg.info) \in BadBase64
               \/ \E t \in BadTexts : Base64Encode(t) = Unwrapped(arg.info)) =>
              ret.tag = "Err"

\* a body that reads as a wire response with no error, a cooldown and a list
\* of servers of which one has an undecodable field
HasUndecodableServer(json) ==
    /\ IsOk(DeserializeRawResponse(json))
    /\ IsNone(DeserializeRawResponse(json).val.error)
    /\ IsSome(DeserializeRawResponse(json).val.cooldown)
    /\ IsSome(DeserializeRawResponse(json).val.servers)
    /\ \E i \in 1..Len(Unwrapped(DeserializeRawResponse(json).val.servers)) :
           ~IsOk(ServerInfoFromRawServerInfo(
                     Unwrapped(DeserializeRawResponse(json).val.servers)[i]))

\* C10: a call of get whose response lists a server with an undecodable field
\* ends by returning a typed error to the caller; it ends in no other way.
C10_UndecodableFieldIsReturnedError ==
    (pc \in {"returned", "panicked"} /\ IsSome(body)
        /\ HasUndecodableServer(Unwrapped(body))) =>
        (pc = "returned" /\ Unwrapped(outcome).tag = "Err")

----------------------------------------------------------------------------
(* Request URLs: url::Url as the calls use it, and the query pairs of       *)
(* form_urlencoded (Url::query_pairs_mut, Url::parse_with_params).          *)

Letters ==
    {"a", "b", "c", "d", "e", "f", "g", "h", "i", "j", "k", "l", "m", "n",
    "o", "p", "q", "r", "s", "t", "u", "v", "w", "x", "y", "z", "A", "B",
    "C", "D", "E", "F", "G", "H", "I", "J", "K", "L", "M", "N", "O", "P",
    "Q", "R", "S", "T", "U", "V", "W", "X", "Y", "Z"}

\* the ASCII codes of the characters that are written as %XX
AsciiCodes ==
    (" " :> 32) @@
    ("!" :> 33) @@
    ("#" :> 35) @@
    ("$" :> 36) @@
    ("%" :> 37) @@
    ("&" :> 38) @@
    ("+" :> 43) @@
    ("," :> 44) @@
    ("/" :> 47) @@
    (":" :> 58) @@
    (";" :> 59) @@
    ("=" :> 61) @@
    ("?" :> 63) @@
    ("@" :> 64)

AsciiCode(c) == AsciiCodes[c]

HexDigits == <<"0", "1", "2", "3", "4", "5", "6", "7", "8", "9", "A", "B", "C", "D", "E", "F">>

\* byte_serialize: these stay as they are, a space becomes '+', every other
\* byte becomes %XX
IsUnreserved(c) == c \in Letters \/ IsDigit(c) \/ c \in {"*", "-", ".", "_"}

EncodeChar(c) ==
    IF IsUnreserved(c) THEN <<c>>
    ELSE IF c = " " THEN <<"+">>
    ELSE <<"%", HexDigits[(AsciiCode(c) \div 16) + 1], HexDigits[(AsciiCode(c) % 16) + 1]>>

RECURSIVE FormEncode(_)
FormEncode(str) ==
    IF str = <<>> THEN <<>> ELSE EncodeChar(Head(str)) \o FormEncode(Tail(str))

\* Serializer::append_pair: '&' unless the query is still empty, then
\* name=value, both encoded
AppendPair(query, name, value) ==
    (IF query = <<>> THEN <<>> ELSE query \o <<"&">>)
        \o FormEncode(name) \o <<"=">> \o FormEncode(value)

RECURSIVE ExtendPairs(_, _)
ExtendPairs(query, pairs) ==
    IF pairs = <<>> THEN query
    ELSE ExtendPairs(AppendPair(query, Head(pairs)[1], Head(pairs)[2]), Tail(pairs))

\* a parsed URL: the scheme, what follows "scheme:" up to the query, and the
\* query (the text after '?') if there is one
Url(scheme, rest, query) == [scheme |-> scheme, rest |-> rest, query |-> query]

\* Url::query_pairs_mut() with the pairs appended: a URL without a query gets
\* one, the pairs go after what the query already holds
WithPairs(u, pairs) ==
    Url(u.scheme, u.rest,
        Some(ExtendPairs(IF IsSome(u.query) THEN Unwrapped(u.query) ELSE <<>>, pairs)))

IndexOf(str, c) ==
    IF \E i \in 1..Len(str) : str[i] = c
    THEN CHOOSE i \in 1..Len(str) : str[i] = c /\ \A j \in 1..(i - 1) : str[j] # c
    ELSE 0

IsScheme(str) ==
    /\ str # <<>>
    /\ str[1] \in Letters
    /\ \A i \in 1..Len(str) :
           str[i] \in Letters \/ IsDigit(str[i]) \/ str[i] \in {"+", "-", "."}

SpecialSchemes == {<<"h", "t", "t", "p">>, <<"h", "t", "t", "p", "s">>, <<"w", "s">>, <<"w", "s", "s">>, <<"f", "t", "p">>}

RECURSIVE SkipSlashes(_)
SkipSlashes(str) ==
    IF str # <<>> /\ Head(str) \in {"/", "\\"} THEN SkipSlashes(Tail(str)) ELSE str

\* the part of "//host/path" that names the host
HostOf(rest) ==
    LET after == SkipSlashes(rest)
        stop  == IF \E i \in 1..Len(after) : after[i] \in {"/", "\\"}
                 THEN CHOOSE i \in 1..Len(after) :
                          /\ after[i] \in {"/", "\\"}
                          /\ \A j \in 1..(i - 1) : after[j] \notin {"/", "\\"}
                 ELSE Len(after) + 1
    IN  SubSeq(after, 1, stop - 1)

\* Url::parse of a string with no base URL: it must start with a scheme, and
\* a special scheme must name a host
UrlParse(str) ==
    LET colon == IndexOf(str, ":")
        mark  == IndexOf(str, "?")
        stop  == IF mark = 0 THEN Len(str) + 1 ELSE mark
    IN  IF colon = 0 \/ colon > stop \/ ~IsScheme(SubSeq(str, 1, colon - 1))
        THEN Err("RelativeUrlWithoutBase")
        ELSE IF /\ SubSeq(str, 1, colon - 1) \in SpecialSchemes
                /\ HostOf(SubSeq(str, colon + 1, stop - 1)) = <<>>
        THEN Err("EmptyHost")
        ELSE Ok(Url(SubSeq(str, 1, colon - 1), SubSeq(str, colon + 1, stop - 1),
                    IF mark = 0 THEN None ELSE Some(SubSeq(str, mark + 1, Len(str)))))

\* Url::parse_with_params as the code's dependency release defines it: parse,
\* and on success extend the query with the pairs
UrlParseWithParams(str, pairs) ==
    IF IsOk(UrlParse(str)) THEN Ok(WithPairs(UrlParse(str).val, pairs)) ELSE UrlParse(str)

----------------------------------------------------------------------------
(* Request parameters and the query of the serverinfo request *)

RequestParameters(u, id, key, flags) ==
    [url |-> u, id |-> id, key |-> key,
     last_online |-> flags[1], players |-> flags[2], list |-> flags[3],
     info |-> flags[4], pastebin |-> flags[5], version |-> flags[6],
     flags |-> flags[7], nicknames |-> flags[8], online |-> flags[9]]

True == <<"t", "r", "u", "e">>

\* QueryPairs with lo written out whatever its value
QueryPairsEveryFlag(parameters) ==
    (IF IsSome(parameters.id)
     THEN <<<<<<"i", "d">>, NatToString(Unwrapped(parameters.id))>>>> ELSE <<>>)
    \o (IF IsSome(parameters.key)
        THEN <<<<<<"k", "e", "y">>, Unwrapped(parameters.key)>>>> ELSE <<>>)
    \o (IF parameters.last_online THEN <<<<<<"l", "o">>, True>>>>
        ELSE <<<<<<"l", "o">>, <<"f", "a", "l", "s", "e">>>>>>)
    \o (IF parameters.players THEN <<<<<<"p", "l", "a", "y", "e", "r", "s">>, True>>>> ELSE <<>>)
    \o (IF parameters.list THEN <<<<<<"l", "i", "s", "t">>, True>>>> ELSE <<>>)
    \o (IF parameters.info THEN <<<<<<"i", "n", "f", "o">>, True>>>> ELSE <<>>)
    \o (IF parameters.pastebin THEN <<<<<<"p", "a", "s", "t", "e", "b", "i", "n">>, True>>>> ELSE <<>>)
    \o (IF parameters.version THEN <<<<<<"v", "e", "r", "s", "i", "o", "n">>, True>>>> ELSE <<>>)
    \o (IF parameters.flags THEN <<<<<<"f", "l", "a", "g", "s">>, True>>>> ELSE <<>>)
    \o (IF parameters.nicknames THEN <<<<<<"n", "i", "c", "k", "n", "a", "m", "e", "s">>, True>>>> ELSE <<>>)
    \o (IF parameters.online THEN <<<<<<"o", "n", "l", "i", "n", "e">>, True>>>> ELSE <<>>)

\* the pairs get appends, in its order: id and key when they are set, each
\* flag when it is true
QueryPairs(parameters) ==
    (IF IsSome(parameters.id)
     THEN <<<<<<"i", "d">>, NatToString(Unwrapped(parameters.id))>>>> ELSE <<>>)
    \o (IF IsSome(parameters.key)
        THEN <<<<<<"k", "e", "y">>, Unwrapped(parameters.key)>>>> ELSE <<>>)
    \o (IF parameters.last_online THEN <<<<<<"l", "o">>, True>>>> ELSE <<>>)
    \o (IF parameters.players THEN <<<<<<"p", "l", "a", "y", "e", "r", "s">>, True>>>> ELSE <<>>)
    \o (IF parameters.list THEN <<<<<<"l", "i", "s", "t">>, True>>>> ELSE <<>>)
    \o (IF parameters.info THEN <<<<<<"i", "n", "f", "o">>, True>>>> ELSE <<>>)
    \o (IF parameters.pastebin THEN <<<<<<"p", "a", "s", "t", "e", "b", "i", "n">>, True>>>> ELSE <<>>)
    \o (IF parameters.version THEN <<<<<<"v", "e", "r", "s", "i", "o", "n">>, True>>>> ELSE <<>>)
    \o (IF parameters.flags THEN <<<<<<"f", "l", "a", "g", "s">>, True>>>> ELSE <<>>)
    \o (IF parameters.nicknames THEN <<<<<<"n", "i", "c", "k", "n", "a", "m", "e", "s">>, True>>>> ELSE <<>>)
    \o (IF parameters.online THEN <<<<<<"o", "n", "l", "i", "n", "e">>, True>>>> ELSE <<>>)

\* raw::get (src/server_info/raw.rs): the URL of the parameters with the
\* pairs appended to its query
RawGetUrl(parameters) == Ok(WithPairs(parameters.url, QueryPairs(parameters)))

\* FlatGetUrl taking any text for the base of an http URL
FlatGetUrlUnparsed(parameters) ==
    Ok(WithPairs(Url(<<"h", "t", "t", "p">>, parameters.url, None), QueryPairs(parameters)))

\* get of src/server_info.rs: the URL text parsed, then the pairs appended
FlatGetUrl(parameters) == UrlParseWithParams(parameters.url, QueryPairs(parameters))

\* reqwest sends http and https URLs only; any other scheme is refused with a
\* reqwest::Error before a request is made
IsSendable(u) == u.scheme \in {<<"h", "t", "t", "p">>, <<"h", "t", "t", "p", "s">>}

----------------------------------------------------------------------------
(* IpAddr::from_str, as ip::get applies it to the body text *)

Ipv4Addr(octets) == [family |-> "V4", octets |-> octets]

Ipv6Addr(segments) == [family |-> "V6", segments |-> segments]

OctetMax == 255

\* a decimal octet: one to three digits, no leading zero, at most 255
IsOctet(str) ==
    /\ Len(str) \in 1..3
    /\ \A i \in 1..Len(str) : IsDigit(str[i])
    /\ Len(str) > 1 => str[1] # "0"
    /\ DigitsValue(str, 0) <= OctetMax

Ipv4FromStr(text) ==
    LET parts == Split(text, ".")
    IN  IF Len(parts) = 4 /\ \A i \in 1..4 : IsOctet(parts[i])
        THEN Ok(Ipv4Addr([i \in 1..4 |-> DigitsValue(parts[i], 0)]))
        ELSE Err("AddrParseError")

HexChars == <<"0", "1", "2", "3", "4", "5", "6", "7", "8", "9", "a", "b", "c", "d", "e", "f">>

HexCharsUpper == <<"0", "1", "2", "3", "4", "5", "6", "7", "8", "9", "A", "B", "C", "D", "E", "F">>

IsHex(c) == \E i \in 1..16 : HexChars[i] = c \/ HexCharsUpper[i] = c

HexVal(c) == (CHOOSE i \in 1..16 : HexChars[i] = c \/ HexCharsUpper[i] = c) - 1

RECURSIVE HexValue(_, _)
HexValue(str, acc) ==
    IF str = <<>> THEN acc ELSE HexValue(Tail(str), acc * 16 + HexVal(Head(str)))

IsSegment(str) == Len(str) \in 1..4 /\ \A i \in 1..Len(str) : IsHex(str[i])

\* the groups between the colons, with "::" at an end counted once
Ipv6Groups(parts) ==
    LET n     == Len(parts)
        front == IF n >= 2 /\ parts[1] = <<>> /\ parts[2] = <<>> THEN 2 ELSE 1
        back  == IF n - front >= 1 /\ parts[n] = <<>> /\ parts[n - 1] = <<>>
                 THEN n - 1 ELSE n
    IN  SubSeq(parts, front, back)

\* hexadecimal groups separated by ':', eight of them, or fewer with one "::"
\* standing for the groups of zeros left out
Ipv6FromStr(text) ==
    LET parts  == Split(text, ":")
        groups == Ipv6Groups(parts)
        gaps   == {i \in 1..Len(groups) : groups[i] = <<>>}
        gap    == IF gaps = {} THEN 0 ELSE CHOOSE i \in gaps : TRUE
        zeros  == 8 - (Len(groups) - 1)
    IN  IF \/ Len(parts) < 2
           \/ (parts[1] = <<>> /\ parts[2] # <<>>)
           \/ (parts[Len(parts)] = <<>> /\ parts[Len(parts) - 1] # <<>>)
           \/ Cardinality(gaps) > 1
           \/ \E i \in 1..Len(groups) : i \notin gaps /\ ~IsSegment(groups[i])
           \/ (gaps = {} /\ Len(groups) # 8)
           \/ (gaps # {} /\ Len(groups) > 8)
        THEN Err("AddrParseError")
        ELSE IF gaps = {}
        THEN Ok(Ipv6Addr([i \in 1..8 |-> HexValue(groups[i], 0)]))
        ELSE Ok(Ipv6Addr([i \in 1..8 |->
                    IF i < gap THEN HexValue(groups[i], 0)
                    ELSE IF i < gap + zeros THEN 0
                    ELSE HexValue(groups[i - zeros + 1], 0)]))

IpAddrFromStr(text) ==
    IF IsOk(Ipv4FromStr(text)) THEN Ipv4FromStr(text) ELSE Ipv6FromStr(text)

----------------------------------------------------------------------------
(* Inputs of the calls *)

\* base URLs a caller may hand over as url::Url values: plain, with a query of
\* their own, and with a scheme that is not http
UrlTexts ==
    {<<"h", "t", "t", "p", ":", "/", "/", "h", "/", "a", "p", "i">>, <<"h", "t", "t", "p", "s", ":", "/", "/", "h", "/", "a", "p", "i", "?", "l", "o", "=", "f", "a", "l", "s", "e", "&", "i", "d", "=", "9">>, <<"f", "t", "p", ":", "/", "/", "h", "/", "a", "p", "i">>}

\* texts that Url::parse refuses
BadUrlTexts == {<<>>, <<"h", "/", "a", "p", "i">>, <<"h", "t", "t", "p", ":", "/", "/">>}

Urls == {UrlParse(text).val : text \in UrlTexts}

RequestIds == {0, 7}

RequestKeys == {<<"a", "&", "b", "=", "c", " ", "d">>}

FlagCount == 9

FlagSets == [1..FlagCount -> BOOLEAN]

\* the parameters of src/server_info/mod.rs hold a Url
UrlParameters ==
    {RequestParameters(u, id, key, flags) :
        u \in Urls, id \in Opt(RequestIds), key \in Opt(RequestKeys), flags \in FlagSets}

\* the parameters of src/server_info.rs hold the URL as text
TextParameters ==
    {RequestParameters(text, id, key, flags) :
        text \in UrlTexts \cup BadUrlTexts, id \in Opt(RequestIds),
        key \in Opt(RequestKeys), flags \in FlagSets}

\* bodies of the serverinfo response: not JSON, JSON of the wrong shape, an
\* error response, a response without cooldown, and positional responses
\* with every field, one of them with an undecodable date
BodySamples ==
    {JInvalid, JObj(<<>>),
     JObj(<<<<"Success", JBool(FALSE)>>, <<"Error", JStr(<<"r", "a", "t", "e", " ", "l", "i", "m", "i", "t", "e", "d">>)>>>>),
     JObj(<<<<"Success", JBool(TRUE)>>, <<"Servers", JArr(<<>>)>>>>),
     JArr(<<JBool(TRUE), JNull, JArr(<<>>), JNum(30)>>),
     JArr(<<JBool(TRUE), JNull,
            JArr(<<JObj(<<<<"ID", JNum(1)>>, <<"Port", JNum(1)>>,
                          <<"LastOnline", JStr(<<"2", "0", "2", "3", "-", "0", "2", "-", "3", "0">>)>>>>)>>),
            JNum(30)>>)}

IpLiterals ==
    {<<"1", ".", "2", ".", "3", ".", "4">>, <<"2", "5", "5", ".", "2", "5", "5", ".", "2", "5", "5", ".", "2", "5", "5">>, <<"0", ".", "0", ".", "0", ".", "0">>, <<":", ":", "1">>, <<":", ":">>, <<"2", "0", "0", "1", ":", "d", "b", "8", ":", ":", "1">>,
     <<"1", ":", "2", ":", "3", ":", "4", ":", "5", ":", "6", ":", "7", ":", "8">>}

NotIpLiterals ==
    {<<>>, <<"1", ".", "2", ".", "3", ".", "4", " ">>, <<" ", "1", ".", "2", ".", "3", ".", "4">>, <<"2", "5", "6", ".", "1", ".", "1", ".", "1">>, <<"1", ".", "2", ".", "3">>, <<"1", ".", "2", ".", "3", ".", "4", ".", "5">>, <<"h", "e", "l", "l", "o">>,
     <<"1", ":", "2", ":", "3", ":", "4", ":", "5", ":", "6", ":", "7">>, <<":", "1">>, <<"1", "2", "3", "4", "5", ":", ":">>, <<"1", ".", "2", ".", "3", ".", "4", ",", ":", ":", "1">>}

IpTexts == IpLiterals \cup NotIpLiterals

----------------------------------------------------------------------------
(* The calls with their requests: server_info::get in both revisions of    *)
(* the module and ip::get.                                                 *)
(*   call   Some([fn, file, parameters]): the call under way               *)
(*   url    Some(the URL the call built for its request)                   *)
(*   pc     "idle", "built" (the URL is built), "awaiting" (the request    *)
(*          is out), "responded" (the response is in, its body not yet     *)
(*          read), "returned", "panicked"                                  *)

Call(fn, file, parameters) == [fn |-> fn, file |-> file, parameters |-> parameters]

\* the error a call returns for a failure inside reqwest
TransportErrorOf(c) ==
    IF c.file = "server_info/mod.rs" THEN "reqwest::Error" ELSE "Error::ReqwestError"

Begin(c, built) ==
    /\ call' = Some(c)
    /\ IF IsOk(built)
       THEN url' = Some(built.val) /\ pc' = "built" /\ outcome' = None
       ELSE url' = None /\ pc' = "returned" /\ outcome' = Some(Err("Error::UrlParseError"))
    /\ UNCHANGED <<body, requests, builder, convVars, padOptional>>

\* server_info::get of src/server_info/mod.rs, through raw::get, up to the URL
GetBuildUrl ==
    /\ pc = "idle"
    /\ \E parameters \in UrlParameters :
        Begin(Call("server_info::get", "server_info/mod.rs", parameters),
              RawGetUrl(parameters))

\* server_info::get of src/server_info.rs up to the URL
FlatGetBuildUrl ==
    /\ pc = "idle"
    /\ \E parameters \in TextParameters :
        Begin(Call("server_info::get", "server_info.rs", parameters),
              FlatGetUrl(parameters))

\* ip::get is handed its URL
IpGetBegin ==
    /\ pc = "idle"
    /\ \E u \in Urls : Begin(Call("ip::get", "ip.rs", [url |-> u]), Ok(u))

Return(result) ==
    /\ outcome' = Some(result)
    /\ pc' = IF result.tag = "Panic" THEN "panicked" ELSE "returned"

\* reqwest::get(url): the GET request goes out
RequestSend ==
    /\ pc = "built"
    /\ IsSendable(Unwrapped(url))
    /\ pc' = "awaiting"
    /\ requests' = requests + 1
    /\ UNCHANGED <<body, outcome, reqVars, convVars, padOptional>>

\* reqwest::get(url) refuses the URL
RequestRefused ==
    /\ pc = "built"
    /\ ~IsSendable(Unwrapped(url))
    /\ Return(Err(TransportErrorOf(Unwrapped(call))))
    /\ UNCHANGED <<body, requests, reqVars, convVars, padOptional>>

\* RequestError trying the request again
RequestErrorRetry ==
    /\ pc = "awaiting"
    /\ pc' = "built"
    /\ UNCHANGED <<body, outcome, requests, reqVars, convVars, padOptional>>

\* reqwest::get(url).await is an Err: the call returns it
RequestError ==
    /\ pc = "awaiting"
    /\ Return(Err(TransportErrorOf(Unwrapped(call))))
    /\ UNCHANGED <<body, requests, reqVars, convVars, padOptional>>

\* reqwest::get(url).await is Ok(response)
Respond ==
    /\ pc = "awaiting"
    /\ pc' = "responded"
    /\ UNCHANGED <<body, outcome, requests, reqVars, convVars, padOptional>>

\* reading the body (.json() or .text()) fails in transport
BodyError ==
    /\ pc = "responded"
    /\ Return(Err(TransportErrorOf(Unwrapped(call))))
    /\ UNCHANGED <<body, requests, reqVars, convVars, padOptional>>

\* what server_info::get makes of a body: .json() decodes it into a
\* RawResponse, a failure of which is a reqwest::Error too, and into()
\* converts the RawResponse
JsonResult(c, json) ==
    IF IsOk(DeserializeRawResponse(json))
    THEN ResponseFromRawResponse(DeserializeRawResponse(json).val)
    ELSE Err(TransportErrorOf(c))

JsonReceive ==
    /\ pc = "responded"
    /\ Unwrapped(call).fn = "server_info::get"
    /\ \E json \in BodySamples :
        /\ body' = Some(json)
        /\ Return(JsonResult(Unwrapped(call), json))
    /\ UNCHANGED <<requests, reqVars, convVars, padOptional>>

\* IpResult reading IPv4 literals only
IpResultV4Only(text) ==
    IF IsOk(Ipv4FromStr(text)) THEN Ipv4FromStr(text) ELSE Err("Error::AddrParseError")

\* what ip::get makes of the body text
IpResult(text) ==
    IF IsOk(IpAddrFromStr(text)) THEN IpAddrFromStr(text) ELSE Err("Error::AddrParseError")

TextReceive ==
    /\ pc = "responded"
    /\ Unwrapped(call).fn = "ip::get"
    /\ \E text \in IpTexts :
        /\ body' = Some(text)
        /\ Return(IpResult(text))
    /\ UNCHANGED <<requests, reqVars, convVars, padOptional>>

NextRequest ==
    \/ GetBuildUrl
    \/ FlatGetBuildUrl
    \/ IpGetBegin
    \/ RequestSend
    \/ RequestRefused
    \/ RequestError
    \/ Respond
    \/ BodyError
    \/ JsonReceive
    \/ TextReceive

\* no body of these calls carries base64 text, so one base64 release is enough
InitRequest == Init /\ ~padOptional

SpecRequest == InitRequest /\ [][NextRequest]_vars

----------------------------------------------------------------------------
(* Properties of the requests *)

\* form_urlencoded::parse, the reading of a query that a server applies: the
\* segments between '&', each split at its first '=', '+' read as a space and
\* %XX as the character of that code
CharOfCode(code) == CHOOSE c \in DOMAIN AsciiCodes : AsciiCodes[c] = code

RECURSIVE FormDecode(_)
FormDecode(str) ==
    IF str = <<>> THEN <<>>
    ELSE IF Head(str) = "+" THEN <<" ">> \o FormDecode(Tail(str))
    ELSE IF Head(str) = "%" /\ Len(str) >= 3 /\ IsHex(str[2]) /\ IsHex(str[3])
    THEN <<CharOfCode(HexVal(str[2]) * 16 + HexVal(str[3]))>> \o FormDecode(SubSeq(str, 4, Len(str)))
    ELSE <<Head(str)>> \o FormDecode(Tail(str))

PairOf(segment) ==
    IF IndexOf(segment, "=") = 0 THEN <<FormDecode(segment), <<>>>>
    ELSE <<FormDecode(SubSeq(segment, 1, IndexOf(segment, "=") - 1)),
           FormDecode(SubSeq(segment, IndexOf(segment, "=") + 1, Len(segment)))>>

RECURSIVE PairsOf(_)
PairsOf(segments) ==
    IF segments = <<>> THEN <<>>
    ELSE IF Head(segments) = <<>> THEN PairsOf(Tail(segments))
    ELSE <<PairOf(Head(segments))>> \o PairsOf(Tail(segments))

FormParse(query) == PairsOf(Split(query, "&"))

\* a serverinfo call that has just built its request URL
GetHasUrl == pc = "built" /\ Unwrapped(call).fn = "server_info::get"

\* the pairs of the request URL's query
SentPairs == FormParse(Unwrapped(Unwrapped(url).query))

\* the pairs the base URL of the parameters brought with it
OwnPairs ==
    LET base == IF Unwrapped(call).file = "server_info.rs"
                THEN UrlParse(Unwrapped(call).parameters.url).val
                ELSE Unwrapped(call).parameters.url
    IN  IF IsSome(base.query) THEN FormParse(Unwrapped(base.query)) ELSE <<>>

FlagNames ==
    <<<<"l", "o">>, <<"p", "l", "a", "y", "e", "r", "s">>, <<"l", "i", "s", "t">>, <<"i", "n", "f", "o">>, <<"p", "a", "s", "t", "e", "b", "i", "n">>, <<"v", "e", "r", "s", "i", "o", "n">>, <<"f", "l", "a", "g", "s">>,
      <<"n", "i", "c", "k", "n", "a", "m", "e", "s">>, <<"o", "n", "l", "i", "n", "e">>>>

FlagsOf(parameters) ==
    <<parameters.last_online, parameters.players, parameters.list, parameters.info,
      parameters.pastebin, parameters.version, parameters.flags, parameters.nicknames,
      parameters.online>>

Named(pairs, name) == {i \in 1..Len(pairs) : pairs[i][1] = name}

\* name=value is in the pairs iff wanted, and then once, with no other pair of
\* that name
OnceIff(pairs, name, value, wanted) ==
    IF wanted
    THEN Cardinality(Named(pairs, name)) = 1 /\ \A i \in Named(pairs, name) : pairs[i][2] = value
    ELSE Named(pairs, name) = {}

\* what the query is to hold for the parameters
PairsMatch(pairs, parameters) ==
    /\ OnceIff(pairs, <<"i", "d">>,
               IF IsSome(parameters.id) THEN NatToString(Unwrapped(parameters.id)) ELSE <<>>,
               IsSome(parameters.id))
    /\ OnceIff(pairs, <<"k", "e", "y">>,
               IF IsSome(parameters.key) THEN Unwrapped(parameters.key) ELSE <<>>,
               IsSome(parameters.key))
    /\ \A k \in 1..FlagCount : OnceIff(pairs, FlagNames[k], True, FlagsOf(parameters)[k])
    /\ \A i \in 1..Len(pairs) : pairs[i][2] # <<"f", "a", "l", "s", "e">>

\* C11 as stated: the query of the request holds id=<value> iff id is set,
\* key=<value> iff key is set, <flag>=true iff the flag is true, no pair for a
\* false flag, no pair with the value false, and each pair at most once.
C11_QueryAsStated ==
    GetHasUrl => PairsMatch(SentPairs, Unwrapped(call).parameters)

\* C11, amended: the query of the request is the query of the base URL
\* followed by the pairs of the call, and those pairs are id=<value> iff id
\* is set, key=<value> iff key is set, <flag>=true iff the flag is true, each
\* at most once, none for a false flag and none with the value false.
C11_AppendedPairs ==
    GetHasUrl =>
        /\ Len(SentPairs) >= Len(OwnPairs)
        /\ SubSeq(SentPairs, 1, Len(OwnPairs)) = OwnPairs
        /\ PairsMatch(SubSeq(SentPairs, Len(OwnPairs) + 1, Len(SentPairs)),
                      Unwrapped(call).parameters)

C11_Witness ==
    /\ GetHasUrl
    /\ OwnPairs = <<>>
    /\ IsNone(Unwrapped(call).parameters.id)
    /\ IsSome(Unwrapped(call).parameters.key)
    /\ Unwrapped(call).parameters.players
    /\ ~Unwrapped(call).parameters.info
    /\ SentPairs = <<<<<<"k", "e", "y">>, <<"a", "&", "b", "=", "c", " ", "d">>>>, <<<<"p", "l", "a", "y", "e", "r", "s">>, True>>>>

\* a serverinfo call of the revision that takes its base URL as text
TextUrlCall ==
    IsSome(call) /\ Unwrapped(call).fn = "server_info::get"
        /\ Unwrapped(call).file = "server_info.rs"

UrlErrorReturned == outcome = Some(Err("Error::UrlParseError"))

\* C12: a serverinfo call whose base URL is not a valid absolute URL returns
\* Error::UrlParseError and issues no request; a call whose base URL is
\* valid, given as text or as a Url, never returns Error::UrlParseError.
C12_UrlParseError ==
    /\ (TextUrlCall /\ Unwrapped(call).parameters.url \in BadUrlTexts) =>
           (pc = "returned" /\ UrlErrorReturned /\ requests = 0 /\ url = None)
    /\ (TextUrlCall /\ Unwrapped(call).parameters.url \in UrlTexts) => ~UrlErrorReturned
    /\ (IsSome(call) /\ ~TextUrlCall) => ~UrlErrorReturned

C12_Witness ==
    /\ TextUrlCall
    /\ Unwrapped(call).parameters.url = <<"h", "/", "a", "p", "i">>
    /\ Unwrapped(call).parameters.players
    /\ pc = "returned"
    /\ UrlErrorReturned
    /\ requests = 0

\* an ip::get call that has ended
IpCallEnded ==
    IsSome(call) /\ Unwrapped(call).fn = "ip::get" /\ pc \in {"returned", "panicked"}

\* the addresses the literals of IpLiterals denote
AddressOf(text) ==
    CASE text = <<"1", ".", "2", ".", "3", ".", "4">> -> Ipv4Addr(<<1, 2, 3, 4>>)
      [] text = <<"2", "5", "5", ".", "2", "5", "5", ".", "2", "5", "5", ".", "2", "5", "5">> -> Ipv4Addr(<<255, 255, 255, 255>>)
      [] text = <<"0", ".", "0", ".", "0", ".", "0">> -> Ipv4Addr(<<0, 0, 0, 0>>)
      [] text = <<":", ":", "1">> -> Ipv6Addr(<<0, 0, 0, 0, 0, 0, 0, 1>>)
      [] text = <<":", ":">> -> Ipv6Addr(<<0, 0, 0, 0, 0, 0, 0, 0>>)
      [] text = <<"2", "0", "0", "1", ":", "d", "b", "8", ":", ":", "1">> -> Ipv6Addr(<<8193, 3512, 0, 0, 0, 0, 0, 1>>)
      [] text = <<"1", ":", "2", ":", "3", ":", "4", ":", "5", ":", "6", ":", "7", ":", "8">> -> Ipv6Addr(<<1, 2, 3, 4, 5, 6, 7, 8>>)

\* C13: a call of ip::get ends in exactly one of three ways: with
\* Error::ReqwestError if the request or the reading of the body failed, with
\* Ok(address) if the body text is exactly an IPv4 or IPv6 literal, with
\* Error::AddrParseError if the body text is anything else.
C13_IpOutcomes ==
    IpCallEnded =>
        /\ pc = "returned"
        /\ IsNone(body) => outcome = Some(Err("Error::ReqwestError"))
        /\ (IsSome(body) /\ Unwrapped(body) \in IpLiterals) =>
               outcome = Some(Ok(AddressOf(Unwrapped(body))))
        /\ (IsSome(body) /\ Unwrapped(body) \in NotIpLiterals) =>
               outcome = Some(Err("Error::AddrParseError"))

C13_Witness ==
    /\ IpCallEnded
    /\ body = Some(<<"2", "0", "0", "1", ":", "d", "b", "8", ":", ":", "1">>)
    /\ IsOk(Unwrapped(outcome))
    /\ Unwrapped(outcome).val.family = "V6"
    /\ requests = 1

\* a serverinfo call that has ended
GetCallEnded ==
    IsSome(call) /\ Unwrapped(call).fn = "server_info::get"
        /\ pc \in {"returned", "panicked"}

\* C14: when the exchange of a serverinfo call succeeds but the body is not a
\* valid wire response, the call returns an error of another kind than the
\* one it returns when the exchange itself fails.
C14_PayloadErrorKindDiffers ==
    (GetCallEnded /\ IsSome(body) /\ ~IsOk(DeserializeRawResponse(Unwrapped(body)))) =>
        /\ pc = "returned"
        /\ Unwrapped(outcome).tag = "Err"
        /\ Unwrapped(outcome).val # TransportErrorOf(Unwrapped(call))

CallEnded == pc \in {"returned", "panicked"}

\* C15: a call of ip::get or of the serverinfo get issues at most one GET
\* request, and only when it sends its URL; when the request or the reading
\* of the body fails the call returns that error at once, with no further
\* request; once the call has ended nothing of it changes any more.
C15_SingleRequest ==
    [][/\ requests' \in {requests, requests + 1}
       /\ requests' <= 1
       /\ requests' # requests => (pc = "built" /\ pc' = "awaiting")
       /\ (pc \in {"awaiting", "responded"} /\ CallEnded' /\ IsNone(body')) =>
              /\ pc' = "returned"
              /\ outcome' = Some(Err(TransportErrorOf(Unwrapped(call))))
              /\ requests' = requests
       /\ CallEnded => UNCHANGED vars]_vars

C15_Witness ==
    /\ IsSome(call)
    /\ pc = "returned"
    /\ requests = 1
    /\ IsNone(body)
    /\ outcome = Some(Err(TransportErrorOf(Unwrapped(call))))

----------------------------------------------------------------------------
(* The derived Serialize of the wire structs, and the response as JSON text *)
(* (impl From<Response> for String, src/server_info.rs).                   *)

\* a faulty Serialize: an absent error is written as null
SerializeRawResponseNulls(raw) ==
    JObj(<<<<"Success", JBool(raw.success)>>>>
         \o <<<<"Error", IF IsSome(raw.error) THEN JStr(Unwrapped(raw.error)) ELSE JNull>>>>
         \o (IF IsSome(raw.servers)
             THEN <<<<"Servers", ServersJson(Unwrapped(raw.servers))>>>> ELSE <<>>)
         \o (IF IsSome(raw.cooldown)
             THEN <<<<"Success", JNum(Unwrapped(raw.cooldown))>>>> ELSE <<>>))

\* Serialize for RawResponse: the fields in declaration order, each under its
\* serde(rename) key, an Option field skipped when it is None
SerializeRawResponse(raw) ==
    JObj(<<<<"Success", JBool(raw.success)>>>>
         \o (IF IsSome(raw.error) THEN <<<<"Error", JStr(Unwrapped(raw.error))>>>> ELSE <<>>)
         \o (IF IsSome(raw.servers)
             THEN <<<<"Servers", ServersJson(Unwrapped(raw.servers))>>>> ELSE <<>>)
         \o (IF IsSome(raw.cooldown)
             THEN <<<<"Success", JNum(Unwrapped(raw.cooldown))>>>> ELSE <<>>))

\* Serialize for RawServerInfo
SerializeRawServerInfo(raw) == ServerJson(raw)

\* impl From<Response> for String
StringFromResponse(response) == SerializeRawResponse(RawResponseFromResponse(response))

\* domain servers for responses
ServerInfoSamples ==
    {ServerInfoOf(7, 7777, None, None, None, None, None, None, None, None, None, None),
     ServerInfoOf(0, U16Max, Some(NaiveDate(2023, 2, 28)), Some(PlayersCount(U32(5), U32(20))),
                  Some(<<Player(<<"a">>, None), Player(<<"a">>, Some(<<"N", "i", "c", "k">>))>>),
                  Some(<<72, 101, 108, 108, 111>>), Some(TRUE), Some(FALSE), Some(TRUE),
                  Some(3), Some(FALSE), Some(TRUE))}

Responses ==
    {SuccessResponse(cooldown, servers) :
        cooldown \in Cooldowns, servers \in SeqsUpTo(ServerInfoSamples, MaxServers)}
    \cup {ErrorResponse(error) : error \in ErrorTexts}

\* serde_json::to_string(&raw) of a wire server entry
SerializeServer ==
    /\ op = "idle"
    /\ \E raw \in RawServerInfos :
        Apply("to_string(RawServerInfo)", raw, Ok(SerializeRawServerInfo(raw)))

\* serde_json::to_string(&raw) of a wire response
SerializeResponse ==
    /\ op = "idle"
    /\ \E raw \in RawResponses :
        Apply("to_string(RawResponse)", raw, Ok(SerializeRawResponse(raw)))

\* RawResponse::from(response)
ConvertResponse ==
    /\ op = "idle"
    /\ \E response \in Responses :
        Apply("RawResponse::from", response, Ok(RawResponseFromResponse(response)))

\* String::from(response)
EncodeResponse ==
    /\ op = "idle"
    /\ \E response \in Responses :
        Apply("String::from", response, Ok(StringFromResponse(response)))

\* Response::from_str(&String::from(response))
DecodeResponse ==
    /\ op = "String::from"
    /\ ApplyBack("Response::from_str", ResponseFromStr(ret.val))

NextSerde ==
    \/ SerializeServer
    \/ SerializeResponse
    \/ ConvertResponse
    \/ EncodeResponse
    \/ DecodeResponse

SpecSerde == Init /\ [][NextSerde]_vars

----------------------------------------------------------------------------
(* Properties of the serialization *)

\* the pairs of an object under a key
Keyed(json, key) == {k \in 1..Len(json.o) : json.o[k][1] = key}

\* the fields of a struct that are written under a key: the required ones and
\* the present optional ones
Written(fields, value, key) ==
    {i \in 1..Len(fields) :
        /\ fields[i].key = key
        /\ (fields[i].required \/ IsSome(value[fields[i].name]))}

\* every key of the struct occurs once for each of its fields that is
\* required or present, no other key occurs, and no value is null
SkipsAbsent(fields, value, json) ==
    /\ json.t = "obj"
    /\ \A i \in 1..Len(fields) :
           Cardinality(Keyed(json, fields[i].key)) =
               Cardinality(Written(fields, value, fields[i].key))
    /\ \A k \in 1..Len(json.o) :
           /\ \E i \in 1..Len(fields) : fields[i].key = json.o[k][1]
           /\ json.o[k][2] # JNull

----------------------------------------------------------------------------
(* RequestParametersBuilder: new, the twelve setters, build.               *)
(*   builder   Some([fields, url_called]): the builder's fields, and       *)
(*             whether url(..) was called on it; None before new() and     *)
(*             after build(), which consumes the builder                   *)

\* #[derive(Default)]: no url, no id, no key, every flag false
BuilderDefault ==
    [url |-> None, id |-> None, key |-> None,
     last_online |-> FALSE, players |-> FALSE, list |-> FALSE, info |-> FALSE,
     pastebin |-> FALSE, version |-> FALSE, flags |-> FALSE, nicknames |-> FALSE,
     online |-> FALSE]

\* a faulty setter: the field is set on a fresh builder
WithFieldOnDefault(fields, field, value) == [BuilderDefault EXCEPT ![field] = value]

\* a setter: self.<field> = value; self
WithField(fields, field, value) == [fields EXCEPT ![field] = value]

\* build: url.unwrap(), every other field copied
BuilderBuildOf(fields) ==
    IF IsNone(fields.url) THEN Panic("unwrap on None")
    ELSE Ok(RequestParameters(Unwrapped(fields.url), fields.id, fields.key, FlagsOf(fields)))

\* RequestParametersBuilder::new()
BuilderNew ==
    /\ op = "idle"
    /\ builder = None
    /\ builder' = Some([fields |-> BuilderDefault, url_called |-> FALSE])
    /\ UNCHANGED <<call, url, convVars, callVars, padOptional>>

Setter(field, value, is_url) ==
    /\ builder' = Some([fields |-> WithField(Unwrapped(builder).fields, field, value),
                        url_called |-> Unwrapped(builder).url_called \/ is_url])
    /\ UNCHANGED <<call, url, convVars, callVars, padOptional>>

\* RequestParametersBuilder::url(value)
BuilderUrl ==
    /\ IsSome(builder)
    /\ \E value \in Urls : Setter("url", Some(value), TRUE)

\* RequestParametersBuilder::id(value)
BuilderId ==
    /\ IsSome(builder)
    /\ \E value \in RequestIds : Setter("id", Some(value), FALSE)

\* RequestParametersBuilder::key(value)
BuilderKey ==
    /\ IsSome(builder)
    /\ \E value \in RequestKeys : Setter("key", Some(value), FALSE)

\* RequestParametersBuilder::last_online(value)
BuilderLastOnline ==
    /\ IsSome(builder)
    /\ \E value \in BOOLEAN : Setter("last_online", value, FALSE)

\* RequestParametersBuilder::players(value)
BuilderPlayers ==
    /\ IsSome(builder)
    /\ \E value \in BOOLEAN : Setter("players", value, FALSE)

\* RequestParametersBuilder::list(value)
BuilderList ==
    /\ IsSome(builder)
    /\ \E value \in BOOLEAN : Setter("list", value, FALSE)

\* RequestParametersBuilder::info(value)
BuilderInfo ==
    /\ IsSome(builder)
    /\ \E value \in BOOLEAN : Setter("info", value, FALSE)

\* RequestParametersBuilder::pastebin(value)
BuilderPastebin ==
    /\ IsSome(builder)
    /\ \E value \in BOOLEAN : Setter("pastebin", value, FALSE)

\* RequestParametersBuilder::version(value)
BuilderVersion ==
    /\ IsSome(builder)
    /\ \E value \in BOOLEAN : Setter("version", value, FALSE)

\* RequestParametersBuilder::flags(value)
BuilderFlags ==
    /\ IsSome(builder)
    /\ \E value \in BOOLEAN : Setter("flags", value, FALSE)

\* RequestParametersBuilder::nicknames(value)
BuilderNicknames ==
    /\ IsSome(builder)
    /\ \E value \in BOOLEAN : Setter("nicknames", value, FALSE)

\* RequestParametersBuilder::online(value)
BuilderOnline ==
    /\ IsSome(builder)
    /\ \E value \in BOOLEAN : Setter("online", value, FALSE)

\* RequestParametersBuilder::build()
BuilderBuild ==
    /\ IsSome(builder)
    /\ op' = "build"
    /\ arg' = Unwrapped(builder)
    /\ ret' = BuilderBuildOf(Unwrapped(builder).fields)
    /\ prev' = None
    /\ builder' = None
    /\ UNCHANGED <<call, url, callVars, padOptional, wire>>

NextBuilder ==
    \/ BuilderNew
    \/ BuilderUrl
    \/ BuilderId
    \/ BuilderKey
    \/ BuilderLastOnline
    \/ BuilderPlayers
    \/ BuilderList
    \/ BuilderInfo
    \/ BuilderPastebin
    \/ BuilderVersion
    \/ BuilderFlags
    \/ BuilderNicknames
    \/ BuilderOnline
    \/ BuilderBuild

SpecBuilder == InitRequest /\ [][NextBuilder]_vars

\* C17: build panics exactly when url(..) was never called on the builder;
\* when it was called, build returns the RequestParameters with the last
\* url, whatever other setters were or were not called.
C17_BuildPanicsWithoutUrl ==
    op = "build" =>
        /\ ret.tag = "Panic" <=> ~arg.url_called
        /\ arg.url_called =>
               /\ IsOk(ret)
               /\ Some(ret.val.url) = arg.fields.url
               /\ ret.val.id = arg.fields.id
               /\ ret.val.key = arg.fields.key
               /\ FlagsOf(ret.val) = FlagsOf(arg.fields)

C17_Witness ==
    /\ op = "build"
    /\ arg.url_called
    /\ IsSome(arg.fields.id)
    /\ IsNone(arg.fields.key)
    /\ arg.fields.players
    /\ IsOk(ret)
    /\ ret.val.players

----------------------------------------------------------------------------
(* Properties of the player count with more than one '/' *)

\* a wire -> domain conversion of a record whose count has two or more '/'
\* and whose other encoded fields decode
CountHasMoreSlashes ==
    /\ op = "ServerInfo::from" /\ prev = None
    /\ IsSome(arg.players_count)
    /\ Len(Split(Unwrapped(arg.players_count), "/")) >= 3
    /\ DateDecodes(arg) /\ InfoDecodes(arg)

\* C18 as stated: the count is split on the first '/' only, so a string with
\* two or more '/' fails (with CountFormatError; here: in whatever way) and
\* yields no PlayersCount built from its first two segments.
C18_SplitOnFirstSlashOnly ==
    CountHasMoreSlashes => ~IsOk(ret)

\* C18, amended: the count is split on every '/' and the first two segments
\* are used: when both are integers in u32 range the conversion yields the
\* PlayersCount of these two, whatever follows the second '/'; when one of
\* them is not, it yields no value.
C18_FirstTwoSegments ==
    CountHasMoreSlashes =>
        LET parts == Split(Unwrapped(arg.players_count), "/")
        IN  IF IsU32Literal(parts[1]) /\ IsU32Literal(parts[2])
            THEN /\ IsOk(ret)
                 /\ ret.val.players_count =
                        Some(PlayersCount(U32Digits(parts[1], U32(0)).val,
                                          U32Digits(parts[2], U32(0)).val))
            ELSE ~IsOk(ret)

C18_Witness ==
    /\ CountHasMoreSlashes
    /\ Unwrapped(arg.players_count) = <<"5", "/", "2", "0", "/", "7">>
    /\ IsOk(ret)
    /\ ret.val.players_count = Some(PlayersCount(U32(5), U32(20)))

----------------------------------------------------------------------------
(* Properties of the response conversions *)

\* C19: the RawResponse made from a Response carries the fields of exactly
\* one variant: from Success it has success = true, no error, the cooldown,
\* and one wire entry per server, in order; from Error it has
\* success = false, the message, and neither servers nor cooldown.
C19_OneVariantPopulated ==
    op = "RawResponse::from" =>
        /\ arg.variant = "Success" =>
               /\ ret.val.success = TRUE
               /\ IsNone(ret.val.error)
               /\ ret.val.cooldown = Some(arg.cooldown)
               /\ IsSome(ret.val.servers)
               /\ Len(Unwrapped(ret.val.servers)) = Len(arg.servers)
               /\ \A i \in 1..Len(arg.servers) :
                      Unwrapped(ret.val.servers)[i] = RawServerInfoFromServerInfo(arg.servers[i])
        /\ arg.variant = "Error" =>
               /\ ret.val.success = FALSE
               /\ ret.val.error = Some(arg.error)
               /\ IsNone(ret.val.servers)
               /\ IsNone(ret.val.cooldown)

C19_Witness ==
    /\ op = "RawResponse::from"
    /\ arg.variant = "Success"
    /\ Len(arg.servers) = 2
    /\ arg.servers[1].id # arg.servers[2].id
    /\ Unwrapped(ret.val.servers)[1].id = arg.servers[1].id
    /\ Unwrapped(ret.val.servers)[2].id = arg.servers[2].id
    /\ ret.val.cooldown = Some(30)

\* C20: a Response written with String::from and read back with
\* Response::from_str comes back as Ok of the same Response: same variant,
\* cooldown, servers in order, message.
C20_JsonRoundTrip ==
    (op = "Response::from_str" /\ IsSome(prev)) =>
        (IsOk(ret) /\ ret.val = Unwrapped(prev))

----------------------------------------------------------------------------
(* Wire -> Domain -> Wire on players *)

\* the wire player wire[k + 1] is the normal form of wire[k]
Normalized(from, to) ==
    /\ from.variant = "UserId" => to = from
    /\ (from.variant = "UserIdWithNickname" /\ IsSome(from.nickname)) => to = from
    /\ (from.variant = "UserIdWithNickname" /\ IsNone(from.nickname)) =>
          to = UserId(from.id)

\* C21: taking a wire player to the domain and back gives the bare-string
\* variant and the object variant with a present nickname back unchanged and
\* turns the object variant with an absent nickname into the bare-string
\* variant with the same id; doing it again changes nothing; and the domain
\* player of the result is the domain player of the original.
C21_WireNormalization ==
    /\ Len(wire) >= 2 => Normalized(wire[1], wire[2])
    /\ \A k \in 2..(Len(wire) - 1) : wire[k + 1] = wire[k]
    /\ (op = "RawPlayer::from" /\ wire # <<>>) =>
          (IsOk(ret) /\ ret.val = wire[Len(wire)] /\ Unwrapped(prev) = wire[Len(wire) - 1])
    /\ (op = "Player::from" /\ Len(wire) >= 2) =>
          (IsOk(ret) /\ arg = wire[Len(wire)] /\ ret.val = Unwrapped(prev))

\* an object with an absent nickname has become the bare string, and the
\* second pass has left the bare string as it was
C21_Witness ==
    /\ op = "RawPlayer::from"
    /\ Len(wire) = 3
    /\ wire[1].variant = "UserIdWithNickname"
    /\ IsNone(wire[1].nickname)
    /\ wire[2] = UserId(wire[1].id)
    /\ wire[3] = wire[2]
    /\ ret.val = wire[3]

====
